---- MODULE Spec2Model ----
(***************************************************************************)
(* Batch route optimization engine of logistics-optimizer                  *)
(* (src/optimize/route_optimizer.py).                                      *)
(*                                                                         *)
(* The specifications of this module:                                      *)
(*   Spec      one call of optimize_routes: the retry shell, validation,   *)
(*             loading, partitioning, the worker pool and reassembly;      *)
(*   BatchSpec one call of optimize_batch: graph construction and the      *)
(*             greedy walk, one loop iteration per step;                   *)
(*   ValSpec   one call of validate_csv_schema on one payload;             *)
(*   SizeSpec  as Spec, with any batch size the command line can pass;     *)
(*   PoolSpec  as Spec, on one payload cut into batches of one delivery;   *)
(*   LoadSpec  one call of load_csv (src/ingest/load_csv.py);              *)
(*   PipeSpec  one run of run_pipeline (src/cli/app.py);                   *)
(*   ZoneSpec  get_utm_crs on the first pickup of a validated payload;     *)
(*   BufSpec   as Spec, on input buffers that were read before the call.   *)
(*   BatchFairSpec  BatchSpec with the loop of the walk taken fairly.      *)
(*                                                                         *)
(* A CSV payload is modelled after parsing: its header and its rows, each  *)
(* cell carrying the kind pandas infers for it.  Coordinates are whole     *)
(* degrees.                                                                *)
(***************************************************************************)
EXTENDS Integers, Sequences, FiniteSets, TLC

VARIABLES
    \* ---- optimize_routes (Spec) ----
    csv_data_list,   \* the input payloads (argument)
    batch_size,      \* argument
    cpu_count,       \* multiprocessing.cpu_count()
    attempt,         \* number of the running attempt (tenacity), from 1
    pc,              \* position inside the attempt / the retry shell
    idx,             \* loop index of the running for-loop
    tables,          \* deliveries_i tables created so far in this attempt
    deliveries,      \* the combined table (rows in stored order)
    total_rows,      \* SELECT COUNT(*)
    batches,         \* number of batches
    batch_dfs,       \* the fetched batches, in query order
    chunk_state,     \* pool.map: state of each chunk of tasks
    chunk_pos,       \* pool.map: batches of the chunk already optimized
    results,         \* pool.map: result slot of every batch
    unordered,       \* TRUE once a chunk finished before one queued ahead of it
    exc,             \* exception of the running attempt ("none" if none)
    errors,          \* exceptions of the failed attempts, in order
    waits,           \* sleeps made between attempts, in order
    optimized,       \* the returned route set
    closed,          \* TRUE once the input buffers are closed
    buf_pos,         \* the position of every input buffer: 0 start, 1 end
    reads,           \* what read_csv returned, read by read, in this attempt
    \* ---- optimize_batch (BatchSpec) ----
    batch_df,        \* the batch (argument)
    b_pc,            \* position inside optimize_batch
    b_exc,           \* the exception optimize_batch raised ("none" if none)
    G,               \* the delivery graph
    current_node, path, visited,
    route,           \* the returned optimized route
    \* ---- validate_csv_schema (ValSpec) ----
    v_csv,           \* the payload (argument)
    v_pc,
    v_result,        \* "ok" or the error raised
    \* ---- load_csv (LoadSpec) ----
    l_bucket,        \* TRUE when the bucket exists
    l_store,         \* the objects of the bucket, in listing order
    l_pc,            \* position inside load_csv
    l_listed,        \* the prefixes listed so far, in order
    csv_objects,     \* the CSV objects of the last listing
    l_i,             \* loop index: the object being loaded
    l_try,           \* get_minio_object: number of the running attempt
    l_fails,         \* failed attempts of every object fetched so far
    csv_data,        \* the payloads accepted so far
    l_exc,           \* the exception load_csv raised (NoExc if none)
    \* ---- run_pipeline (PipeSpec) ----
    p_opts,          \* the options and the environment of the run
    p_pc,            \* position inside run_pipeline
    p_calls,         \* the pipeline steps called so far, in order
    p_returned,      \* the pipeline steps that returned, in order
    p_failed,        \* the step that raised and its exception ("none" if none)
    p_exc,           \* the exception raised inside the outer try ("none" if none)
    exit_code,       \* the exit code of the run (-1 while it runs)
    \* ---- get_utm_crs on a validated point (ZoneSpec) ----
    z_lon, z_lat,    \* the first pickup of a batch, whole degrees
    z_pc,
    z_crs            \* the EPSG code get_utm_crs returned (0 if none)

routeVars == <<csv_data_list, batch_size, cpu_count, attempt, pc, idx, tables,
               deliveries, total_rows, batches, batch_dfs, chunk_state, chunk_pos,
               results, unordered, exc, errors, waits, optimized, closed,
               buf_pos, reads>>
batchVars == <<batch_df, b_pc, b_exc, G, current_node, path, visited, route>>
valVars   == <<v_csv, v_pc, v_result>>
loadVars  == <<l_bucket, l_store, l_pc, l_listed, csv_objects, l_i, l_try,
               l_fails, csv_data, l_exc>>
pipeVars  == <<p_opts, p_pc, p_calls, p_returned, p_failed, p_exc, exit_code>>
zoneVars  == <<z_lon, z_lat, z_pc, z_crs>>
vars      == <<routeVars, batchVars, valVars, loadVars, pipeVars, zoneVars>>

----------------------------------------------------------------------------
(* Bounds of the model *)

\* most rows in all payloads of one optimize_routes call together
MaxRows == 3
\* delivery ids are drawn from 1..MaxId
MaxId == 2
\* batch sizes are drawn from 1..MaxBatchSize
MaxBatchSize == 2
\* most rows of the batch handed to optimize_batch in BatchSpec
MaxBatchRows == 3
\* most rows of the payload handed to validate_csv_schema in ValSpec
MaxValRows == 2
\* most batches handed to the pool in PoolSpec
MaxTasks == 5
\* most objects of the bucket in LoadSpec
MaxObjects == 2

----------------------------------------------------------------------------
(* Generic helpers *)

Min2(a, b) == IF a <= b THEN a ELSE b
Max2(a, b) == IF a >= b THEN a ELSE b
Range(s) == {s[i] : i \in DOMAIN s}

RECURSIVE SeqsUpTo(_, _)
\* all sequences over S of length 0..n
SeqsUpTo(S, n) ==
    IF n = 0 THEN {<<>>}
    ELSE LET shorter == SeqsUpTo(S, n - 1)
         IN  shorter \cup {Append(s, x) : s \in {t \in shorter : Len(t) = n - 1}, x \in S}

RECURSIVE Flatten(_)
\* concatenation of a sequence of sequences, in order
Flatten(ss) == IF ss = <<>> THEN <<>> ELSE Head(ss) \o Flatten(Tail(ss))

----------------------------------------------------------------------------
(* Cells, rows and payloads *)

\* a cell as read by pandas.read_csv
Num(v)  == [k |-> "num", v |-> v]     \* an integer literal
Frac(v) == [k |-> "frac", v |-> v]    \* a non-integral number, v + 0.5
Null    == [k |-> "null", v |-> 0]    \* an empty cell (NaN)
Text    == [k |-> "text", v |-> 0]    \* a string that is no number and no time
Time(v) == [k |-> "time", v |-> v]    \* a date-time string

Columns == {"delivery_id", "pickup_lat", "pickup_lon", "dropoff_lat", "dropoff_lon",
            "timestamp"}

\* a pickup/dropoff geometry: whole degrees
Geoms == { <<40, -74, 41, -73>>,     \* pickup and dropoff apart
           <<41, -73, 40, -74>>,     \* the reverse trip
           <<40, -74, 40, -74>>,     \* pickup and dropoff at one point
           <<-34, 151, -33, 150>> }  \* southern hemisphere, another zone

MkRow(id, g) ==
    [delivery_id |-> Num(id),
     pickup_lat |-> Num(g[1]), pickup_lon |-> Num(g[2]),
     dropoff_lat |-> Num(g[3]), dropoff_lon |-> Num(g[4]),
     timestamp |-> Time(id)]

\* a payload: header "none" (no header line at all), "bad" (a header without
\* the required columns, as in id,lat,lon,time) or "ok"; and its data rows
MkCsv(h, rows) == [header |-> h, rows |-> rows]

----------------------------------------------------------------------------
(* validate_csv_schema *)

expected_columns == <<"delivery_id", "pickup_lat", "pickup_lon", "dropoff_lat",
                      "dropoff_lon", "timestamp">>
required_numeric == <<"pickup_lat", "pickup_lon", "dropoff_lat", "dropoff_lon">>

\* the cells of one column, top to bottom
Column(rows, col) == [i \in DOMAIN rows |-> rows[i][col]]

\* the dtype pandas.read_csv gives a column: a column without any cell and a
\* column holding a string are object; a column of numbers holding an empty
\* cell or a non-integral number is float64; a column of integers is int64
Dtype(cells) ==
    IF Len(cells) = 0 THEN "object"
    ELSE IF \E i \in DOMAIN cells : cells[i].k \in {"text", "time"} THEN "object"
    ELSE IF \E i \in DOMAIN cells : cells[i].k \in {"null", "frac"} THEN "float64"
    ELSE "int64"

is_numeric_dtype(cells) == Dtype(cells) \in {"int64", "float64"}
is_integer_dtype(cells) == Dtype(cells) = "int64"
HasNull(cells) == \E i \in DOMAIN cells : cells[i].k = "null"

\* Series.duplicated().any(): two cells hold the same value (NaN equals NaN)
Duplicated(cells) == \E i, j \in DOMAIN cells : i < j /\ cells[i] = cells[j]

\* one cell within [lo, hi]; Frac(v) stands for v + 0.5, NaN is in no range
CellBetween(c, lo, hi) ==
    CASE c.k = "num"  -> lo <= c.v /\ c.v <= hi
      [] c.k = "frac" -> lo <= c.v /\ c.v + 1 <= hi
      [] OTHER        -> FALSE

AllBetween(cells, lo, hi) == \A i \in DOMAIN cells : CellBetween(cells[i], lo, hi)

\* pd.to_datetime(errors="raise") raises on a string that is no date-time;
\* an empty cell becomes NaT without an error
ToDatetimeRaises(cells) == \E i \in DOMAIN cells : cells[i].k = "text"

IsLat(col) == col \in {"pickup_lat", "dropoff_lat"}

\* the body of the loop over required_numeric for one column
CheckNumericColumn(rows, col) ==
    LET cells == Column(rows, col)
    IN  IF ~is_numeric_dtype(cells) THEN "not_numeric"
        ELSE IF HasNull(cells) THEN "null"
        ELSE IF IsLat(col) /\ ~AllBetween(cells, -90, 90) THEN "out_of_range"
        ELSE IF ~IsLat(col) /\ ~AllBetween(cells, -180, 180) THEN "out_of_range"
        ELSE "ok"

RECURSIVE CheckNumericColumns(_, _)
\* the loop over required_numeric: the first column that fails raises
CheckNumericColumns(rows, cols) ==
    IF cols = <<>> THEN "ok"
    ELSE LET r == CheckNumericColumn(rows, Head(cols))
         IN  IF r # "ok" THEN r ELSE CheckNumericColumns(rows, Tail(cols))

CheckIntColumn(rows) ==
    LET cells == Column(rows, "delivery_id")
    IN  IF ~is_integer_dtype(cells) THEN "not_integer"
        ELSE IF HasNull(cells) THEN "null"
        ELSE "ok"

CheckDatetimeColumn(rows) ==
    IF ToDatetimeRaises(Column(rows, "timestamp")) THEN "not_datetime" ELSE "ok"

\* "ok", or the kind of the OptimizationError raised
validate_csv_schema(csv) ==
    IF csv.header = "none" THEN "empty"
    ELSE IF csv.header = "bad" THEN "schema_mismatch"
    ELSE IF Duplicated(Column(csv.rows, "delivery_id")) THEN "duplicate"
    ELSE LET n == CheckNumericColumns(csv.rows, required_numeric)
         IN  IF n # "ok" THEN n
             ELSE LET d == CheckIntColumn(csv.rows)
                  IN  IF d # "ok" THEN d ELSE CheckDatetimeColumn(csv.rows)

----------------------------------------------------------------------------
(* get_utm_crs and the projection *)

\* Python's int(a / b) for b > 0: the quotient truncated toward zero
TruncDiv(a, b) == IF a >= 0 THEN a \div b ELSE -((-a) \div b)

utm_zone(lon) == TruncDiv(lon + 180, 6) + 1

\* the EPSG code: "EPSG:326zz" north of the equator, "EPSG:327zz" south
get_utm_crs(lon, lat) ==
    IF lat >= 0 THEN 32600 + utm_zone(lon) ELSE 32700 + utm_zone(lon)

Abs(x) == IF x < 0 THEN -x ELSE x

\* tenfold cosine of the latitude, by band
CosScale(lat) ==
    IF Abs(lat) < 30 THEN 10 ELSE IF Abs(lat) < 60 THEN 7 ELSE 3

\* GeoDataFrame.to_crs(utm_crs): a point <<lon, lat>> of EPSG:4326 in the
\* plane of the zone, easting measured from the zone's central meridian
\* (integer approximation of the transverse Mercator projection)
to_crs(crs, pt) ==
    LET zone == crs % 100
        central == zone * 6 - 183
    IN  <<(pt[1] - central) * CosScale(pt[2]), 10 * pt[2]>>

\* geometry.distance in the plane; the model keeps the square of the
\* distance, which orders and ties pairs of points exactly as the distance
distance(a, b) == (a[1] - b[1]) * (a[1] - b[1]) + (a[2] - b[2]) * (a[2] - b[2])

----------------------------------------------------------------------------
(* build_delivery_graph and optimize_batch *)

\* node identifiers "p_<idx>" and "d_<idx>", idx the row index from 0
PNode(i) == [t |-> "p", i |-> i]
DNode(i) == [t |-> "d", i |-> i]

\* Point(lon, lat) of a node
PickupPoint(row)  == <<row.pickup_lon.v, row.pickup_lat.v>>
DropoffPoint(row) == <<row.dropoff_lon.v, row.dropoff_lat.v>>

RECURSIVE NodeOrder(_)
\* the nodes of a batch of n rows in creation order p_0, d_0, p_1, d_1, ...
NodeOrder(n) ==
    IF n = 0 THEN <<>> ELSE NodeOrder(n - 1) \o <<PNode(n - 1), DNode(n - 1)>>

\* the columns of a batch; a batch without rows has them all
ColumnsOf(df) == IF df = <<>> THEN Columns ELSE DOMAIN df[1]

\* missing_cols of build_delivery_graph
required_cols == {"pickup_lat", "pickup_lon", "dropoff_lat", "dropoff_lon"}
missing_cols(df) == {col \in required_cols : col \notin ColumnsOf(df)}

\* mutant: the edge from a pickup to its own dropoff weighs the length of
\* the trip
build_delivery_graph_trip_weight(df) ==
    LET n == Len(df)
        nodes == NodeOrder(n)
    IN  [nodes |-> nodes,
         data  |-> [u \in Range(nodes) |->
                      [row        |-> df[u.i + 1],
                       point_type |-> IF u.t = "p" THEN "pickup" ELSE "dropoff",
                       geometry   |-> IF u.t = "p" THEN PickupPoint(df[u.i + 1])
                                                   ELSE DropoffPoint(df[u.i + 1])]],
         adj   |-> [u \in Range(nodes) |->
                      IF u.t = "p"
                      THEN <<[n |-> DNode(u.i),
                              weight |-> distance(PickupPoint(df[u.i + 1]),
                                                  DropoffPoint(df[u.i + 1]))]>>
                      ELSE <<>>]]

\* the graph after build_delivery_graph: two nodes per row carrying the row's
\* fields, its role and its point, and one weight-0 edge pickup -> own dropoff.
\* adj[u] lists the out-edges of u in insertion order
build_delivery_graph(df) ==
    LET n == Len(df)
        nodes == NodeOrder(n)
    IN  [nodes |-> nodes,
         data  |-> [u \in Range(nodes) |->
                      [row        |-> df[u.i + 1],
                       point_type |-> IF u.t = "p" THEN "pickup" ELSE "dropoff",
                       geometry   |-> IF u.t = "p" THEN PickupPoint(df[u.i + 1])
                                                   ELSE DropoffPoint(df[u.i + 1])]],
         adj   |-> [u \in Range(nodes) |->
                      IF u.t = "p" THEN <<[n |-> DNode(u.i), weight |-> 0]>>
                                   ELSE <<>>]]

SelectNodes(g, t) == SelectSeq(g.nodes, LAMBDA u : u.t = t)

\* weight of the edge the double loop adds from pickup u to dropoff v
EdgeWeight(g, crs, u, v) ==
    distance(to_crs(crs, g.data[u].geometry), to_crs(crs, g.data[v].geometry))

\* mutant: the double loop does not skip the pickup's own dropoff
CrossEdgesAll(g, crs, u) ==
    LET others == SelectNodes(g, "d")
    IN  [k \in DOMAIN others |->
            [n |-> others[k], weight |-> EdgeWeight(g, crs, u, others[k])]]

\* the out-edges the double loop adds at pickup u: every dropoff of another
\* row, in dropoff order
CrossEdges(g, crs, u) ==
    LET others == SelectSeq(SelectNodes(g, "d"), LAMBDA v : v.i # u.i)
    IN  [k \in DOMAIN others |->
            [n |-> others[k], weight |-> EdgeWeight(g, crs, u, others[k])]]

\* the graph after the double loop of optimize_batch
AddDistanceEdges(g, crs) ==
    [g EXCEPT !.adj = [u \in DOMAIN g.adj |->
                         IF u.t = "p" THEN g.adj[u] \o CrossEdges(g, crs, u)
                                      ELSE g.adj[u]]]

\* the graph optimize_batch walks
DeliveryGraph(df) ==
    AddDistanceEdges(build_delivery_graph(df),
                     get_utm_crs(df[1].pickup_lon.v, df[1].pickup_lat.v))

\* next(iter(pickups_gdf.index), None)
NoNode == [t |-> "none", i |-> 0]
StartNode(g) ==
    LET ps == SelectNodes(g, "p") IN IF ps = <<>> THEN NoNode ELSE ps[1]

\* the unvisited out-neighbours of the current node with their weights
Neighbors(g, cur, vis) == SelectSeq(g.adj[cur], LAMBDA e : e.n \notin vis)

\* mutant: the last entry of least weight
MinNeighborLast(nbrs) ==
    LET k == CHOOSE i \in DOMAIN nbrs :
                 /\ \A j \in DOMAIN nbrs : nbrs[i].weight <= nbrs[j].weight
                 /\ \A j \in (i + 1)..Len(nbrs) : nbrs[j].weight > nbrs[i].weight
    IN  nbrs[k].n

\* min(neighbors, key=weight)[0]: the first entry of least weight
MinNeighbor(nbrs) ==
    LET k == CHOOSE i \in DOMAIN nbrs :
                 /\ \A j \in DOMAIN nbrs : nbrs[i].weight <= nbrs[j].weight
                 /\ \A j \in 1..(i - 1) : nbrs[j].weight > nbrs[i].weight
    IN  nbrs[k].n

\* mutant: the unvisited nodes, the one created last first
UnvisitedNewestFirst(g, vis) ==
    LET unv == SelectSeq(g.nodes, LAMBDA u : u \notin vis)
    IN  [k \in DOMAIN unv |-> unv[Len(unv) + 1 - k]]

\* [n for n in G.nodes() if n not in visited]
Unvisited(g, vis) == SelectSeq(g.nodes, LAMBDA u : u \notin vis)

\* mutant: the loop ends one node early
WalkDoneEarly(g, st) == Cardinality(st.visited) >= Len(g.nodes) - 1 \/ st.broke

\* the condition of the while loop is false, or the loop was left by break
WalkDone(g, st) == Cardinality(st.visited) >= Len(g.nodes) \/ st.broke

Visit(st, u) ==
    [st EXCEPT !.current_node = u, !.path = Append(@, u), !.visited = @ \cup {u}]

\* one iteration of the while loop
WalkStep(g, st) ==
    LET nbrs == Neighbors(g, st.current_node, st.visited)
    IN  IF nbrs = <<>>
        THEN LET unv == Unvisited(g, st.visited)
             IN  IF unv # <<>> THEN Visit(st, unv[1]) ELSE [st EXCEPT !.broke = TRUE]
        ELSE Visit(st, MinNeighbor(nbrs))

WalkStart(g) ==
    [current_node |-> StartNode(g), path |-> <<StartNode(g)>>,
     visited |-> {StartNode(g)}, broke |-> FALSE]

RECURSIVE Walk(_, _)
\* the while loop run to its end
Walk(g, st) == IF WalkDone(g, st) THEN st ELSE Walk(g, WalkStep(g, st))

\* a row of the result: the fields of the input row and the node's point
RouteRow(g, u) == [row |-> g.data[u].row, geometry |-> g.data[u].geometry]

\* mutant: the rows are not deduplicated
KeepDuplicates(rows, seen) == rows

RECURSIVE DropDuplicates(_, _)
\* drop_duplicates(subset=['delivery_id']): the first row of each id stays
DropDuplicates(rows, seen) ==
    IF rows = <<>> THEN <<>>
    ELSE IF Head(rows).row.delivery_id \in seen
         THEN DropDuplicates(Tail(rows), seen)
         ELSE <<Head(rows)>> \o
              DropDuplicates(Tail(rows), seen \cup {Head(rows).row.delivery_id})

\* the pickup rows of the path, first occurrence of each delivery_id
OptimizedRoute(g, p) ==
    LET pickups == SelectSeq(p, LAMBDA u : g.data[u].point_type = "pickup")
    IN  DropDuplicates([k \in DOMAIN pickups |-> RouteRow(g, pickups[k])], {})

\* what the try block raises before the walk ("none" if nothing): reading
\* the first row's pickup_lon and pickup_lat for get_utm_crs raises KeyError
\* on a missing column, which the handler turns into the OptimizationError
\* 'Batch data error'; build_delivery_graph raises ValueError on any missing
\* coordinate column, which the handler raises again as it is
BuildRaises(df) ==
    IF ~({"pickup_lon", "pickup_lat"} \subseteq ColumnsOf(df)) THEN "batch_data_error"
    ELSE IF missing_cols(df) # {} THEN "ValueError"
    ELSE IF StartNode(DeliveryGraph(df)) = NoNode THEN "no_pickup_nodes"
    ELSE "none"

\* optimize_batch as a function: what it raises ("none" if nothing) and the
\* route it returns
optimize_batch(df) ==
    IF df = <<>> THEN [raised |-> "none", route |-> <<>>]
    ELSE IF BuildRaises(df) # "none"
    THEN [raised |-> BuildRaises(df), route |-> <<>>]
    ELSE LET g == DeliveryGraph(df)
         IN  [raised |-> "none",
              route  |-> OptimizedRoute(g, Walk(g, WalkStart(g)).path)]

----------------------------------------------------------------------------
(* BatchSpec: optimize_batch step by step *)

EmptyGraph == [nodes |-> <<>>, data |-> <<>>, adj |-> <<>>]

\* rows that passed validation
BatchRows == {MkRow(id, g) : id \in 1..MaxId, g \in Geoms}

\* a row without the column c
DropColumn(row, c) == [k \in (DOMAIN row) \ {c} |-> row[k]]

\* one-row batches that lack a coordinate column
MalformedBatches ==
    {<<DropColumn(row, c)>> : row \in BatchRows, c \in required_cols}

BatchIdle ==
    /\ batch_df = <<>> /\ b_pc = "idle" /\ b_exc = "none" /\ G = EmptyGraph
    /\ current_node = NoNode /\ path = <<>> /\ visited = {} /\ route = <<>>

WalkState == [current_node |-> current_node, path |-> path, visited |-> visited,
              broke |-> FALSE]

\* the empty batch returns an empty frame at once
BatchEmpty ==
    /\ b_pc = "start" /\ batch_df = <<>>
    /\ b_pc' = "done" /\ route' = <<>>
    /\ UNCHANGED <<batch_df, b_exc, G, current_node, path, visited>>
    /\ UNCHANGED <<routeVars, valVars, loadVars, pipeVars, zoneVars>>

\* the try block raises before the walk: the handlers raise the
\* OptimizationError 'Batch data error' for a KeyError and any other
\* exception as it is
BatchFails ==
    /\ b_pc = "start" /\ batch_df # <<>>
    /\ BuildRaises(batch_df) # "none"
    /\ b_pc' = "raised" /\ b_exc' = BuildRaises(batch_df)
    /\ UNCHANGED <<batch_df, G, current_node, path, visited, route>>
    /\ UNCHANGED <<routeVars, valVars, loadVars, pipeVars, zoneVars>>

\* the graph is built and the walk starts at the first pickup
BatchBuild ==
    /\ b_pc = "start" /\ batch_df # <<>>
    /\ BuildRaises(batch_df) = "none"
    /\ G' = DeliveryGraph(batch_df)
    /\ b_pc' = "walk"
    /\ current_node' = WalkStart(G').current_node
    /\ path' = WalkStart(G').path
    /\ visited' = WalkStart(G').visited
    /\ UNCHANGED <<batch_df, b_exc, route>>
    /\ UNCHANGED <<routeVars, valVars, loadVars, pipeVars, zoneVars>>

WalkTo(st) ==
    /\ current_node' = st.current_node /\ path' = st.path /\ visited' = st.visited
    /\ b_pc' = IF st.broke THEN "walked" ELSE "walk"
    /\ UNCHANGED <<batch_df, b_exc, G, route>>
    /\ UNCHANGED <<routeVars, valVars, loadVars, pipeVars, zoneVars>>

\* a loop iteration that finds an unvisited out-neighbour
WalkNeighbor ==
    /\ b_pc = "walk" /\ ~WalkDone(G, WalkState)
    /\ Neighbors(G, current_node, visited) # <<>>
    /\ WalkTo(WalkStep(G, WalkState))

\* a loop iteration at a dead end
WalkJump ==
    /\ b_pc = "walk" /\ ~WalkDone(G, WalkState)
    /\ Neighbors(G, current_node, visited) = <<>>
    /\ WalkTo(WalkStep(G, WalkState))

\* the loop has ended: the path is reduced to the route and returned
BatchReturn ==
    /\ \/ b_pc = "walk" /\ WalkDone(G, WalkState)
       \/ b_pc = "walked"
    /\ route' = OptimizedRoute(G, path)
    /\ b_pc' = "done"
    /\ UNCHANGED <<batch_df, b_exc, G, current_node, path, visited>>
    /\ UNCHANGED <<routeVars, valVars, loadVars, pipeVars, zoneVars>>

BatchNext ==
    \/ BatchEmpty \/ BatchFails \/ BatchBuild \/ WalkNeighbor \/ WalkJump
    \/ BatchReturn

----------------------------------------------------------------------------
(* ValSpec: validate_csv_schema on one payload *)

BaseGeom == <<40, -74, 41, -73>>

\* cells a column may hold instead of the well-formed one
AltCells ==
    [c \in Columns |->
       CASE c = "delivery_id" -> {Frac(1), Null, Text}
         [] c = "pickup_lat"  -> {Num(90), Num(-90), Num(95), Num(-91), Frac(90), Null, Text}
         [] c = "pickup_lon"  -> {Num(180), Num(-180), Num(181), Null, Text}
         [] c = "dropoff_lat" -> {Num(95), Null, Text}
         [] c = "dropoff_lon" -> {Num(-181), Null, Text}
         [] c = "timestamp"   -> {Text, Null}]

\* well-formed rows, and rows with one cell replaced
ValRows ==
    {MkRow(id, BaseGeom) : id \in 1..MaxId} \cup
    {[MkRow(1, BaseGeom) EXCEPT ![c] = x] : <<c, x>> \in
        UNION {{<<c, x>> : x \in AltCells[c]} : c \in Columns}}

ValPayloads ==
    {MkCsv("none", <<>>)} \cup
    {MkCsv("bad", rows) : rows \in {<<>>, <<MkRow(1, BaseGeom)>>}} \cup
    {MkCsv("ok", rows) : rows \in SeqsUpTo(ValRows, MaxValRows)}

ValIdle == v_csv = MkCsv("none", <<>>) /\ v_pc = "idle" /\ v_result = "none"

Validate ==
    /\ v_pc = "start"
    /\ v_result' = validate_csv_schema(v_csv)
    /\ v_pc' = "done"
    /\ UNCHANGED v_csv
    /\ UNCHANGED <<routeVars, batchVars, loadVars, pipeVars, zoneVars>>

ValNext == Validate

----------------------------------------------------------------------------
(* optimize_routes: the retry shell, the pipeline and the worker pool *)

\* program constants
MaxAttempts == 3
WaitMultiplier == 1
WaitMin == 4
WaitMax == 10

\* the geometry of the rows of delivery id in the payloads of Spec
GeomSeq == << <<40, -74, 41, -73>>, <<41, -73, 40, -74>>,
              <<40, -74, 40, -74>>, <<-34, 151, -33, 150>> >>
MainRow(id) == MkRow(id, GeomSeq[((id - 1) % Len(GeomSeq)) + 1])

\* payloads of at most t rows: without a header, with a foreign header, with
\* the header alone, and with 1..t well-formed rows (ids may repeat)
MainPayloads(t) ==
    {MkCsv("none", <<>>), MkCsv("bad", <<MainRow(1)>>), MkCsv("ok", <<>>)} \cup
    {MkCsv("ok", [i \in DOMAIN ids |-> MainRow(ids[i])]) :
        ids \in SeqsUpTo(1..MaxRows, t) \ {<<>>}}

RECURSIVE PayloadLists(_)
\* lists of payloads holding at most t rows together (a payload without rows
\* counts as one row, which bounds the length of the list)
PayloadLists(t) ==
    IF t = 0 THEN {<<>>}
    ELSE {<<>>} \cup
         UNION {{<<p>> \o l : l \in PayloadLists(t - Max2(1, Len(p.rows)))} :
                p \in MainPayloads(t)}

\* the delivery ids of the well-formed payloads of a list, in row order
IdSeq(l) ==
    LET rows == Flatten([i \in DOMAIN l |->
                            IF l[i].header = "ok" THEN l[i].rows ELSE <<>>])
    IN  [i \in DOMAIN rows |-> rows[i].delivery_id.v]

\* ids are numbered in order of first appearance: the code compares ids for
\* equality only, so every pattern of equal and distinct ids is among these
FirstAppearanceOrder(ids) ==
    \A i \in DOMAIN ids : \A v \in 1..(ids[i] - 1) : \E j \in 1..(i - 1) : ids[j] = v

InputLists == {l \in PayloadLists(MaxRows) : FirstAppearanceOrder(IdSeq(l))}

\* the machines the call runs on
CpuCounts == {1, 3}

\* one result slot of pool.map
EmptySlot == [set |-> FALSE, route |-> <<>>]

RouteIdle ==
    /\ csv_data_list = <<>> /\ batch_size = 1 /\ cpu_count = 1
    /\ attempt = 0 /\ pc = "idle" /\ idx = 0
    /\ tables = <<>> /\ deliveries = <<>> /\ total_rows = 0 /\ batches = 0
    /\ batch_dfs = <<>> /\ chunk_state = <<>> /\ chunk_pos = <<>> /\ results = <<>>
    /\ unordered = FALSE /\ exc = "none" /\ errors = <<>> /\ waits = <<>>
    /\ optimized = <<>> /\ closed = FALSE /\ buf_pos = <<>> /\ reads = <<>>

\* the local state of an attempt before it starts
AttemptReset ==
    /\ idx' = 0 /\ tables' = <<>> /\ deliveries' = <<>> /\ total_rows' = 0
    /\ batches' = 0 /\ batch_dfs' = <<>> /\ chunk_state' = <<>> /\ chunk_pos' = <<>>
    /\ results' = <<>> /\ unordered' = FALSE /\ exc' = "none"
    /\ reads' = <<>>

inputVars == <<csv_data_list, batch_size, cpu_count>>
shellVars == <<attempt, errors, waits>>
poolVars  == <<chunk_state, chunk_pos, results, unordered>>

\* an exception leaves the attempt
Raise(e) == exc' = e /\ pc' = "failed"

\* the argument check
CheckArgs ==
    /\ pc = "start"
    /\ IF csv_data_list = <<>>
       THEN Raise("ValueError") /\ UNCHANGED idx
       ELSE pc' = "validate" /\ idx' = 1 /\ UNCHANGED exc
    /\ UNCHANGED <<inputVars, shellVars, poolVars, tables, deliveries, total_rows,
                   batches, batch_dfs, optimized, closed>>
    /\ UNCHANGED <<batchVars, valVars, loadVars, pipeVars, zoneVars, buf_pos, reads>>

\* mutant: the buffer is read from where it stands
RewindNot(pos) == pos

\* csv_data.seek(0): the position of the buffer afterwards
Rewind(pos) == 0

\* pd.read_csv on a buffer of the payload csv that stands at pos: the whole
\* payload from the start, nothing from the end
ReadCsv(csv, pos) == IF pos = 0 THEN csv ELSE MkCsv("none", <<>>)

\* the position validate_csv_schema leaves the buffer at: it reads to the
\* end and, unless read_csv raised EmptyDataError, seeks back to the start
PosAfterValidate(read) == IF read.header = "none" THEN 1 ELSE 0

\* mutant: one loop validates a payload and creates its table at once
ValidateAndLoadPayload ==
    /\ pc = "validate"
    /\ LET read == ReadCsv(csv_data_list[idx], Rewind(buf_pos[idx]))
           r == validate_csv_schema(read)
       IN  /\ reads' = Append(reads, read)
           /\ IF r # "ok"
              THEN /\ Raise(r) /\ UNCHANGED <<idx, tables>>
                   /\ buf_pos' = [buf_pos EXCEPT ![idx] = PosAfterValidate(read)]
              ELSE /\ UNCHANGED exc
                   /\ tables' = Append(tables, read.rows)
                   /\ buf_pos' = [buf_pos EXCEPT ![idx] = 1]
                   /\ IF idx < Len(csv_data_list)
                      THEN pc' = "validate" /\ idx' = idx + 1
                      ELSE pc' = "combine" /\ idx' = 0
    /\ UNCHANGED <<inputVars, shellVars, poolVars, deliveries, total_rows,
                   batches, batch_dfs, optimized, closed>>
    /\ UNCHANGED <<batchVars, valVars, loadVars, pipeVars, zoneVars>>

\* one iteration of the validation loop: the buffer is rewound and validated
ValidatePayload ==
    /\ pc = "validate"
    /\ LET read == ReadCsv(csv_data_list[idx], Rewind(buf_pos[idx]))
           r == validate_csv_schema(read)
       IN  /\ reads' = Append(reads, read)
           /\ buf_pos' = [buf_pos EXCEPT ![idx] = PosAfterValidate(read)]
           /\ IF r # "ok"
              THEN Raise(r) /\ UNCHANGED idx
              ELSE /\ UNCHANGED exc
                   /\ IF idx < Len(csv_data_list)
                      THEN pc' = "validate" /\ idx' = idx + 1
                      ELSE pc' = "load" /\ idx' = 1
    /\ UNCHANGED <<inputVars, shellVars, poolVars, tables, deliveries, total_rows,
                   batches, batch_dfs, optimized, closed>>
    /\ UNCHANGED <<batchVars, valVars, loadVars, pipeVars, zoneVars>>

\* one iteration of the loading loop: the buffer is rewound and read, the
\* table deliveries_<i> is created; read_csv raises EmptyDataError when
\* there is nothing to read
LoadCsv ==
    /\ pc = "load"
    /\ LET read == ReadCsv(csv_data_list[idx], Rewind(buf_pos[idx]))
       IN  /\ reads' = Append(reads, read)
           /\ buf_pos' = [buf_pos EXCEPT ![idx] = 1]
           /\ IF read.header = "none"
              THEN Raise("EmptyDataError") /\ UNCHANGED <<idx, tables>>
              ELSE /\ tables' = Append(tables, read.rows)
                   /\ UNCHANGED exc
                   /\ IF idx < Len(csv_data_list)
                      THEN pc' = "load" /\ idx' = idx + 1
                      ELSE pc' = "combine" /\ idx' = 0
    /\ UNCHANGED <<inputVars, shellVars, poolVars, deliveries, total_rows,
                   batches, batch_dfs, optimized, closed>>
    /\ UNCHANGED <<batchVars, valVars, loadVars, pipeVars, zoneVars>>

\* CREATE TABLE deliveries AS SELECT ... UNION ALL ...
Combine ==
    /\ pc = "combine"
    /\ deliveries' = Flatten(tables)
    /\ pc' = "partition"
    /\ UNCHANGED <<inputVars, shellVars, poolVars, idx, tables, total_rows,
                   batches, batch_dfs, exc, optimized, closed>>
    /\ UNCHANGED <<batchVars, valVars, loadVars, pipeVars, zoneVars, buf_pos, reads>>

\* mutant: one batch more than full batches
BatchCountPlusOne(total, size) == total \div size + 1

\* mutant: the quotient is rounded down
BatchCountFloor(total, size) == total \div size

\* Python's a // b for b # 0: the quotient rounded toward minus infinity
FloorDiv(a, b) ==
    IF b > 0 THEN a \div b ELSE (-a) \div (-b)

\* (total_rows + batch_size - 1) // batch_size
BatchCount(total, size) == FloorDiv(total + size - 1, size)

\* mutant: batches are numbered from 1
OffsetOneBased(batch_num, size) == (batch_num + 1) * size

\* offsets[batch_num] for batch_num = 0, 1, ...
Offset(batch_num, size) == batch_num * size

\* mutant: the limit is one row too long
FetchBatchInclusive(table, size, offset) ==
    SubSeq(table, offset + 1, Min2(offset + size + 1, Len(table)))

\* SELECT * FROM deliveries LIMIT size OFFSET offset: the table is scanned in
\* insertion order (DuckDB preserves insertion order by default)
FetchBatch(table, size, offset) ==
    SubSeq(table, offset + 1, Min2(offset + size, Len(table)))

\* the row count, the number of batches; the pool is created. The division
\* by a batch_size of 0 raises ZeroDivisionError
Partition ==
    /\ pc = "partition"
    /\ total_rows' = Len(deliveries)
    /\ IF batch_size = 0
       THEN Raise("ZeroDivisionError") /\ UNCHANGED <<batches, idx>>
       ELSE /\ batches' = BatchCount(Len(deliveries), batch_size)
            /\ pc' = "slice" /\ idx' = 0
            /\ UNCHANGED exc
    /\ UNCHANGED <<inputVars, shellVars, poolVars, tables, deliveries,
                   batch_dfs, optimized, closed>>
    /\ UNCHANGED <<batchVars, valVars, loadVars, pipeVars, zoneVars, buf_pos, reads>>

\* one batch query; idx is the batch_num of the next query. DuckDB rejects a
\* negative LIMIT; the duckdb.Error is raised again as an OptimizationError
Slice ==
    /\ pc = "slice" /\ idx < batches
    /\ IF batch_size < 0
       THEN Raise("duckdb_error") /\ UNCHANGED <<batch_dfs, idx>>
       ELSE /\ batch_dfs' = Append(batch_dfs, FetchBatch(deliveries, batch_size,
                                                         Offset(idx, batch_size)))
            /\ idx' = idx + 1
            /\ UNCHANGED <<pc, exc>>
    /\ UNCHANGED <<inputVars, shellVars, poolVars, tables, deliveries,
                   total_rows, batches, optimized, closed>>
    /\ UNCHANGED <<batchVars, valVars, loadVars, pipeVars, zoneVars, buf_pos, reads>>

\* mutant: one worker per CPU
PoolSizeAllCpus == cpu_count

\* processes=max(1, cpu_count() - 1)
PoolSize == Max2(1, cpu_count - 1)

\* Pool.map's chunk size for n tasks
ChunkSize(n) ==
    IF n = 0 THEN 0
    ELSE LET q == n \div (PoolSize * 4)
             r == n % (PoolSize * 4)
         IN  IF r # 0 THEN q + 1 ELSE q

NumChunks(n) == IF n = 0 THEN 0 ELSE (n + ChunkSize(n) - 1) \div ChunkSize(n)

\* the batches (1-based) of chunk c
ChunkFirst(c) == (c - 1) * ChunkSize(batches) + 1
ChunkLast(c)  == Min2(c * ChunkSize(batches), batches)

\* mutant: the batches fetched so far are dispatched while the slicing goes on
DispatchPipelined ==
    /\ pc = "slice" /\ idx >= Min2(1, batches)
    /\ pc' = "map"
    /\ chunk_state' = [c \in 1..NumChunks(Len(batch_dfs)) |-> "queued"]
    /\ chunk_pos' = [c \in 1..NumChunks(Len(batch_dfs)) |-> 0]
    /\ results' = [b \in 1..Len(batch_dfs) |-> EmptySlot]
    /\ unordered' = FALSE
    /\ UNCHANGED <<inputVars, shellVars, idx, tables, deliveries, total_rows,
                   batches, batch_dfs, exc, optimized, closed>>
    /\ UNCHANGED <<batchVars, valVars, loadVars, pipeVars, zoneVars, buf_pos, reads>>

\* pool.map is called: every chunk of batches is queued
Dispatch ==
    /\ pc = "slice" /\ idx >= batches
    /\ pc' = "map"
    /\ chunk_state' = [c \in 1..NumChunks(Len(batch_dfs)) |-> "queued"]
    /\ chunk_pos' = [c \in 1..NumChunks(Len(batch_dfs)) |-> 0]
    /\ results' = [b \in 1..Len(batch_dfs) |-> EmptySlot]
    /\ unordered' = FALSE
    /\ UNCHANGED <<inputVars, shellVars, idx, tables, deliveries, total_rows,
                   batches, batch_dfs, exc, optimized, closed>>
    /\ UNCHANGED <<batchVars, valVars, loadVars, pipeVars, zoneVars, buf_pos, reads>>

Running == {c \in DOMAIN chunk_state : chunk_state[c] = "running"}
Arrived == {c \in DOMAIN chunk_state : chunk_state[c] \in {"done", "failed"}}

\* chunk c finishes while a chunk queued ahead of it has not
Overtakes(c) == \E d \in 1..(c - 1) : d \notin Arrived

\* an idle worker takes the chunk at the head of the task queue
StartChunk ==
    /\ pc = "map"
    /\ Cardinality(Running) < PoolSize
    /\ \E c \in DOMAIN chunk_state :
          /\ chunk_state[c] = "queued"
          /\ \A d \in 1..(c - 1) : chunk_state[d] # "queued"
          /\ chunk_state' = [chunk_state EXCEPT ![c] = "running"]
    /\ UNCHANGED <<inputVars, shellVars, pc, idx, tables, deliveries, total_rows,
                   batches, batch_dfs, chunk_pos, results, unordered, exc,
                   optimized, closed>>
    /\ UNCHANGED <<batchVars, valVars, loadVars, pipeVars, zoneVars, buf_pos, reads>>

\* mutant: the results of a chunk are stored where the chunk arrives
StoreChunkOnArrival(c) ==
    [b \in DOMAIN results |->
        IF b = Cardinality(Arrived) + 1
        THEN [set |-> TRUE, route |-> optimize_batch(batch_dfs[ChunkFirst(c)]).route]
        ELSE results[b]]

\* MapResult._set for a chunk that succeeded: its results are stored unless
\* another chunk has failed before
StoreChunk(c) ==
    IF \E d \in DOMAIN chunk_state : chunk_state[d] = "failed"
    THEN results
    ELSE [b \in DOMAIN results |->
            IF ChunkFirst(c) <= b /\ b <= ChunkLast(c)
            THEN [set |-> TRUE, route |-> optimize_batch(batch_dfs[b]).route]
            ELSE results[b]]

\* a worker optimizes the next batch of its chunk; the call returns, or it
\* raises (optimize_batch re-raises whatever the libraries raise)
RunBatch ==
    /\ pc = "map"
    /\ \E c \in Running, raises \in BOOLEAN :
          LET b == ChunkFirst(c) + chunk_pos[c]
          IN  IF raises \/ optimize_batch(batch_dfs[b]).raised # "none"
              THEN /\ chunk_state' = [chunk_state EXCEPT ![c] = "failed"]
                   /\ unordered' = (unordered \/ Overtakes(c))
                   /\ UNCHANGED <<chunk_pos, results>>
              ELSE /\ chunk_pos' = [chunk_pos EXCEPT ![c] = @ + 1]
                   /\ IF b = ChunkLast(c)
                      THEN /\ chunk_state' = [chunk_state EXCEPT ![c] = "done"]
                           /\ unordered' = (unordered \/ Overtakes(c))
                           /\ results' = StoreChunk(c)
                      ELSE UNCHANGED <<chunk_state, unordered, results>>
    /\ UNCHANGED <<inputVars, shellVars, pc, idx, tables, deliveries, total_rows,
                   batches, batch_dfs, exc, optimized, closed>>
    /\ UNCHANGED <<batchVars, valVars, loadVars, pipeVars, zoneVars, buf_pos, reads>>

\* MapResult._number_left = 0
AllArrived == Arrived = DOMAIN chunk_state

\* mutant: the results at hand are returned although a chunk failed
GatherIgnoringFailures ==
    /\ pc = "map" /\ AllArrived
    /\ pc' = "concat"
    /\ UNCHANGED <<inputVars, shellVars, poolVars, idx, tables, deliveries,
                   total_rows, batches, batch_dfs, exc, optimized, closed>>
    /\ UNCHANGED <<batchVars, valVars, loadVars, pipeVars, zoneVars, buf_pos, reads>>

\* mutant: pool.map raises as soon as one chunk has failed
GatherOnFirstFailure ==
    /\ pc = "map"
    /\ IF \E c \in DOMAIN chunk_state : chunk_state[c] = "failed"
       THEN Raise("engine_error")
       ELSE AllArrived /\ pc' = "concat" /\ UNCHANGED exc
    /\ UNCHANGED <<inputVars, shellVars, poolVars, idx, tables, deliveries,
                   total_rows, batches, batch_dfs, optimized, closed>>
    /\ UNCHANGED <<batchVars, valVars, loadVars, pipeVars, zoneVars, buf_pos, reads>>

\* pool.map returns once every chunk has arrived: the list of results in task
\* order, or the exception of a failed chunk
Gather ==
    /\ pc = "map" /\ AllArrived
    /\ IF \E c \in DOMAIN chunk_state : chunk_state[c] = "failed"
       THEN Raise("engine_error")
       ELSE pc' = "concat" /\ UNCHANGED exc
    /\ UNCHANGED <<inputVars, shellVars, poolVars, idx, tables, deliveries,
                   total_rows, batches, batch_dfs, optimized, closed>>
    /\ UNCHANGED <<batchVars, valVars, loadVars, pipeVars, zoneVars, buf_pos, reads>>

\* pd.concat(optimized_dfs, ignore_index=True)
Concatenate(slots) == Flatten([b \in DOMAIN slots |-> slots[b].route])

\* the results are concatenated, the buffers closed, the route set returned;
\* pd.concat raises ValueError on an empty list
Concat ==
    /\ pc = "concat"
    /\ IF results = <<>>
       THEN Raise("ValueError") /\ UNCHANGED <<optimized, closed>>
       ELSE /\ optimized' = Concatenate(results)
            /\ closed' = TRUE
            /\ pc' = "returned"
            /\ UNCHANGED exc
    /\ UNCHANGED <<inputVars, shellVars, poolVars, idx, tables, deliveries,
                   total_rows, batches, batch_dfs>>
    /\ UNCHANGED <<batchVars, valVars, loadVars, pipeVars, zoneVars, buf_pos, reads>>

RECURSIVE Pow2(_)
Pow2(n) == IF n = 0 THEN 1 ELSE 2 * Pow2(n - 1)

\* wait_exponential(multiplier=1, min=4, max=10) after failed attempt n
Wait(n) == Max2(WaitMin, Min2(WaitMultiplier * Pow2(n - 1), WaitMax))

\* mutant: one attempt more
ShouldStopLate(n) == n > MaxAttempts

\* stop_after_attempt(3)
ShouldStop(n) == n >= MaxAttempts

\* the retry shell sees the exception of the attempt: it stops and re-raises
\* it, or sleeps before the next attempt
RetryOrRaise ==
    /\ pc = "failed"
    /\ errors' = Append(errors, exc)
    /\ IF ShouldStop(attempt)
       THEN pc' = "raised" /\ UNCHANGED waits
       ELSE pc' = "sleep" /\ waits' = Append(waits, Wait(attempt))
    /\ UNCHANGED <<inputVars, poolVars, attempt, idx, tables, deliveries, total_rows,
                   batches, batch_dfs, exc, optimized, closed>>
    /\ UNCHANGED <<batchVars, valVars, loadVars, pipeVars, zoneVars, buf_pos, reads>>

\* the sleep is over: the function is called again
NextAttempt ==
    /\ pc = "sleep"
    /\ attempt' = attempt + 1
    /\ pc' = "start"
    /\ AttemptReset
    /\ UNCHANGED <<inputVars, errors, waits, optimized, closed, buf_pos>>
    /\ UNCHANGED <<batchVars, valVars, loadVars, pipeVars, zoneVars>>

Next ==
    \/ CheckArgs \/ ValidatePayload \/ LoadCsv \/ Combine \/ Partition \/ Slice
    \/ Dispatch \/ StartChunk \/ RunBatch \/ Gather \/ Concat
    \/ RetryOrRaise \/ NextAttempt

----------------------------------------------------------------------------
(* load_csv: the ingestion of the payloads from the object store *)

\* program constant: stop_after_attempt(3) of get_minio_object
FetchMaxAttempts == 3

\* an object of the bucket: whether its name ends in ".csv", whether its name
\* starts with the sample prefix (every name starts with the full prefix),
\* whether its bytes are UTF-8, and the text they hold read as a payload
\* (header "none": nothing but white space)
MkObject(is_csv, in_sample, utf8, csv) ==
    [is_csv |-> is_csv, in_sample |-> in_sample, utf8 |-> utf8, csv |-> csv]

ObjectTexts == {MkCsv("none", <<>>), MkCsv("bad", <<MainRow(1)>>),
                MkCsv("ok", <<>>), MkCsv("ok", <<MainRow(1)>>)}

Objects ==
    {MkObject(FALSE, smp, TRUE, MkCsv("ok", <<MainRow(1)>>)) : smp \in BOOLEAN} \cup
    {MkObject(TRUE, smp, TRUE, t) : smp \in BOOLEAN, t \in ObjectTexts} \cup
    {MkObject(TRUE, smp, FALSE, MkCsv("ok", <<MainRow(1)>>)) : smp \in BOOLEAN}

\* an exception: its type and the parts of its message, outermost first
MkExc(type, msg) == [type |-> type, msg |-> msg]
NoExc == MkExc("none", <<>>)

\* list_csv_objects: the objects under the prefix whose name ends in ".csv"
list_csv_objects(store, prefix) ==
    SelectSeq(store, LAMBDA o : o.is_csv /\ (prefix = "full" \/ o.in_sample))

\* validate_csv: read_csv(nrows=1) raises EmptyDataError on a text without a
\* header; a frame without rows and a frame that lacks a required column are
\* invalid
validate_csv(csv) ==
    IF csv.header = "none" THEN FALSE
    ELSE IF csv.rows = <<>> THEN FALSE
    ELSE IF csv.header # "ok" THEN FALSE
    ELSE TRUE

\* the body of the loop of load_csv for one response: the payload appended to
\* csv_data, or nothing (the object is skipped)
Accepted(o) ==
    IF ~o.utf8 THEN <<>>
    ELSE IF o.csv.header = "none" THEN <<>>
    ELSE IF validate_csv(o.csv) THEN <<o.csv>>
    ELSE <<>>

\* the handlers of the try block of load_csv: an S3Error and any other
\* exception, an IngestError raised inside the block included, leave as a
\* new IngestError around the message
Wrapped(e) ==
    IF e.type = "S3Error" THEN MkExc("IngestError", <<"MinIO S3 error">> \o e.msg)
    ELSE MkExc("IngestError", <<"MinIO ingestion failed">> \o e.msg)

LoadIdle ==
    /\ l_bucket = FALSE /\ l_store = <<>> /\ l_pc = "idle" /\ l_listed = <<>>
    /\ csv_objects = <<>> /\ l_i = 0 /\ l_try = 0 /\ l_fails = <<>>
    /\ csv_data = <<>> /\ l_exc = NoExc

loadInputs == <<l_bucket, l_store>>

LoadRaise(e) == l_exc' = e /\ l_pc' = "raised"

\* client.bucket_exists: a missing bucket raises IngestError outside the try
\* block
CheckBucket ==
    /\ l_pc = "start"
    /\ IF ~l_bucket
       THEN LoadRaise(MkExc("IngestError", <<"Bucket does not exist">>))
       ELSE l_pc' = "list_sample" /\ UNCHANGED l_exc
    /\ UNCHANGED <<loadInputs, l_listed, csv_objects, l_i, l_try, l_fails, csv_data>>
    /\ UNCHANGED <<routeVars, batchVars, valVars, pipeVars, zoneVars>>

\* mutant: the full prefix is listed whatever the sample listing holds
ListSampleThenFull ==
    /\ l_pc = "list_sample"
    /\ l_listed' = Append(l_listed, "sample")
    /\ csv_objects' = list_csv_objects(l_store, "sample")
    /\ l_pc' = "list_full"
    /\ UNCHANGED <<loadInputs, l_i, l_try, l_fails, csv_data, l_exc>>
    /\ UNCHANGED <<routeVars, batchVars, valVars, pipeVars, zoneVars>>

\* the sample prefix is listed
ListSample ==
    /\ l_pc = "list_sample"
    /\ l_listed' = Append(l_listed, "sample")
    /\ csv_objects' = list_csv_objects(l_store, "sample")
    /\ IF csv_objects' = <<>>
       THEN l_pc' = "list_full" /\ UNCHANGED <<l_i, l_try>>
       ELSE l_pc' = "fetch" /\ l_i' = 1 /\ l_try' = 1
    /\ UNCHANGED <<loadInputs, l_fails, csv_data, l_exc>>
    /\ UNCHANGED <<routeVars, batchVars, valVars, pipeVars, zoneVars>>

\* the fallback: the full prefix is listed
ListFull ==
    /\ l_pc = "list_full"
    /\ l_listed' = Append(l_listed, "full")
    /\ csv_objects' = list_csv_objects(l_store, "full")
    /\ IF csv_objects' = <<>>
       THEN /\ LoadRaise(Wrapped(MkExc("IngestError", <<"No CSV files found">>)))
            /\ UNCHANGED <<l_i, l_try>>
       ELSE l_pc' = "fetch" /\ l_i' = 1 /\ l_try' = 1 /\ UNCHANGED l_exc
    /\ UNCHANGED <<loadInputs, l_fails, csv_data>>
    /\ UNCHANGED <<routeVars, batchVars, valVars, pipeVars, zoneVars>>

\* mutant: one attempt fewer
FetchShouldStopEarly(n) == n >= FetchMaxAttempts - 1

\* stop_after_attempt(3) of get_minio_object
FetchShouldStop(n) == n >= FetchMaxAttempts

\* one attempt of get_minio_object on the object at hand: client.get_object
\* returns the response, or it raises and the retry shell tries again or
\* raises the exception of this attempt
GetObject ==
    /\ l_pc = "fetch" /\ l_i <= Len(csv_objects)
    /\ \/ /\ l_pc' = "read"
          /\ l_fails' = Append(l_fails, l_try - 1)
          /\ UNCHANGED <<l_try, l_exc>>
       \/ \E type \in {"S3Error", "Exception"} :
             IF FetchShouldStop(l_try)
             THEN /\ LoadRaise(Wrapped(MkExc(type, <<"get_object failed">>)))
                  /\ l_fails' = Append(l_fails, l_try)
                  /\ UNCHANGED l_try
             ELSE /\ l_try' = l_try + 1
                  /\ UNCHANGED <<l_pc, l_fails, l_exc>>
    /\ UNCHANGED <<loadInputs, l_listed, csv_objects, l_i, csv_data>>
    /\ UNCHANGED <<routeVars, batchVars, valVars, pipeVars, zoneVars>>

\* mutant: whatever decodes is accepted
ReadObjectUnvalidated ==
    /\ l_pc = "read"
    /\ csv_data' = csv_data \o (IF csv_objects[l_i].utf8 THEN <<csv_objects[l_i].csv>>
                                                           ELSE <<>>)
    /\ l_i' = l_i + 1 /\ l_try' = 1 /\ l_pc' = "fetch"
    /\ UNCHANGED <<loadInputs, l_listed, csv_objects, l_fails, l_exc>>
    /\ UNCHANGED <<routeVars, batchVars, valVars, pipeVars, zoneVars>>

\* the response is read, decoded and validated; a valid payload is appended,
\* any other object is skipped; the response is closed and the loop goes on
ReadObject ==
    /\ l_pc = "read"
    /\ csv_data' = csv_data \o Accepted(csv_objects[l_i])
    /\ l_i' = l_i + 1 /\ l_try' = 1 /\ l_pc' = "fetch"
    /\ UNCHANGED <<loadInputs, l_listed, csv_objects, l_fails, l_exc>>
    /\ UNCHANGED <<routeVars, batchVars, valVars, pipeVars, zoneVars>>

\* the loop is over: the payloads are returned, or there is none
LoadReturn ==
    /\ l_pc = "fetch" /\ l_i > Len(csv_objects)
    /\ IF csv_data = <<>>
       THEN LoadRaise(Wrapped(MkExc("IngestError", <<"No valid CSV content found">>)))
       ELSE l_pc' = "returned" /\ UNCHANGED l_exc
    /\ UNCHANGED <<loadInputs, l_listed, csv_objects, l_i, l_try, l_fails, csv_data>>
    /\ UNCHANGED <<routeVars, batchVars, valVars, pipeVars, zoneVars>>

LoadNext ==
    \/ CheckBucket \/ ListSample \/ ListFull \/ GetObject \/ ReadObject
    \/ LoadReturn

----------------------------------------------------------------------------
(* run_pipeline: the steps of the command line run *)

\* the exceptions a step function can raise
StepErrors(step) ==
    CASE step = "load_csv"        -> {"ValueError", "IngestError"}
      [] step = "optimize_routes" -> {"ValueError", "OptimizationError", "Exception"}
      [] step = "store_routes"    -> {"StorageError", "Exception"}

\* p_opts holds the options of a run and what it finds: --batch-size,
\* --verbose, whether --log-level names a logging level, whether the
\* directory of the database is writable, and --use-sample
PipeIdle ==
    /\ p_opts = [batch_size |-> 1, verbose |-> FALSE, level_ok |-> TRUE,
                 writable |-> TRUE, use_sample |-> FALSE]
    /\ p_pc = "idle" /\ p_calls = <<>>
    /\ p_returned = <<>> /\ p_failed = [step |-> "none", exc |-> "none"] /\ p_exc = "none" /\ exit_code = -1

\* the logging level is set and the database directory checked
PipeSetup ==
    /\ p_pc = "start"
    /\ IF ~p_opts.level_ok THEN p_exc' = "ValueError" /\ p_pc' = "handler"
       ELSE IF ~p_opts.writable THEN p_exc' = "Exit" /\ p_pc' = "handler"
       ELSE p_pc' = "ingest" /\ UNCHANGED p_exc
    /\ UNCHANGED <<p_opts, p_calls, p_returned, p_failed, exit_code>>
    /\ UNCHANGED <<routeVars, batchVars, valVars, loadVars, zoneVars>>

\* a step function is called: it returns, or it raises an exception, which
\* the handler of the step answers with typer.Exit(code=1)
PipeCall(step, next) ==
    /\ p_calls' = Append(p_calls, step)
    /\ \/ /\ p_returned' = Append(p_returned, step)
          /\ p_pc' = next
          /\ UNCHANGED <<p_failed, p_exc>>
       \/ \E e \in StepErrors(step) :
             /\ p_failed' = [step |-> step, exc |-> e]
             /\ p_exc' = "Exit" /\ p_pc' = "handler"
             /\ UNCHANGED p_returned
    /\ UNCHANGED <<p_opts, exit_code>>
    /\ UNCHANGED <<routeVars, batchVars, valVars, loadVars, zoneVars>>

\* step 1: the built-in sample, or load_csv
PipeIngest ==
    /\ p_pc = "ingest"
    /\ IF p_opts.use_sample
       THEN /\ p_pc' = "optimize"
            /\ UNCHANGED <<p_opts, p_calls, p_returned, p_failed, p_exc, exit_code>>
            /\ UNCHANGED <<routeVars, batchVars, valVars, loadVars, zoneVars>>
       ELSE PipeCall("load_csv", "optimize")

\* mutant: a failure of the optimization is logged and the run goes on
PipeOptimizeGoesOn ==
    /\ p_pc = "optimize"
    /\ p_calls' = Append(p_calls, "optimize_routes")
    /\ \/ p_returned' = Append(p_returned, "optimize_routes") /\ UNCHANGED p_failed
       \/ \E e \in StepErrors("optimize_routes") :
             /\ p_failed' = [step |-> "optimize_routes", exc |-> e]
             /\ UNCHANGED p_returned
    /\ p_pc' = "store"
    /\ UNCHANGED <<p_opts, p_exc, exit_code>>
    /\ UNCHANGED <<routeVars, batchVars, valVars, loadVars, zoneVars>>

\* step 2: optimize_routes
PipeOptimize == p_pc = "optimize" /\ PipeCall("optimize_routes", "store")

\* step 3: store_routes
PipeStore == p_pc = "store" /\ PipeCall("store_routes", "completed")

\* the handlers of the outer try block: a ValueError and any other exception,
\* the typer.Exit of a failed step included, end the run with exit code 1
PipeHandler ==
    /\ p_pc = "handler"
    /\ exit_code' = 1 /\ p_pc' = "exited"
    /\ UNCHANGED <<p_opts, p_calls, p_returned, p_failed, p_exc>>
    /\ UNCHANGED <<routeVars, batchVars, valVars, loadVars, zoneVars>>

\* the command returns: exit code 0
PipeComplete ==
    /\ p_pc = "completed"
    /\ exit_code' = 0 /\ p_pc' = "exited"
    /\ UNCHANGED <<p_opts, p_calls, p_returned, p_failed, p_exc>>
    /\ UNCHANGED <<routeVars, batchVars, valVars, loadVars, zoneVars>>

----------------------------------------------------------------------------
(* ZoneSpec: the zone of a point that passed validation *)

ZoneIdle == z_lon = 0 /\ z_lat = 0 /\ z_pc = "idle" /\ z_crs = 0

\* validate_csv_schema on the payload of one delivery picked up at
\* <<z_lon, z_lat>>
ZoneValidate ==
    /\ z_pc = "start"
    /\ LET payload == MkCsv("ok", <<MkRow(1, <<z_lat, z_lon, z_lat, z_lon>>)>>)
       IN  z_pc' = (IF validate_csv_schema(payload) = "ok"
                    THEN "validated" ELSE "rejected")
    /\ UNCHANGED <<z_lon, z_lat, z_crs>>
    /\ UNCHANGED <<routeVars, batchVars, valVars, loadVars, pipeVars>>

\* optimize_batch computes the coordinate system of the batch from its first
\* pickup
ZoneProject ==
    /\ z_pc = "validated"
    /\ z_crs' = get_utm_crs(z_lon, z_lat)
    /\ z_pc' = "done"
    /\ UNCHANGED <<z_lon, z_lat>>
    /\ UNCHANGED <<routeVars, batchVars, valVars, loadVars, pipeVars>>

----------------------------------------------------------------------------
(* The specifications *)

BatchInit ==
    /\ batch_df \in SeqsUpTo(BatchRows, MaxBatchRows) \cup MalformedBatches
    /\ b_pc = "start" /\ b_exc = "none" /\ G = EmptyGraph
    /\ current_node = NoNode /\ path = <<>> /\ visited = {} /\ route = <<>>
    /\ RouteIdle /\ ValIdle /\ LoadIdle /\ PipeIdle /\ ZoneIdle

BatchSpec == BatchInit /\ [][BatchNext]_vars

\* the while loop of optimize_batch and the return behind it wait for
\* nothing: a step of them that can be taken is taken
BatchFairSpec == BatchSpec /\ WF_vars(WalkNeighbor \/ WalkJump \/ BatchReturn)

ValInit ==
    /\ v_csv \in ValPayloads /\ v_pc = "start" /\ v_result = "none"
    /\ RouteIdle /\ BatchIdle /\ LoadIdle /\ PipeIdle /\ ZoneIdle

ValSpec == ValInit /\ [][ValNext]_vars

\* the state at the first call of optimize_routes, but for the input buffers
FirstAttempt ==
    /\ attempt = 1 /\ pc = "start" /\ idx = 0
    /\ tables = <<>> /\ deliveries = <<>> /\ total_rows = 0 /\ batches = 0
    /\ batch_dfs = <<>> /\ chunk_state = <<>> /\ chunk_pos = <<>> /\ results = <<>>
    /\ unordered = FALSE /\ exc = "none" /\ errors = <<>> /\ waits = <<>>
    /\ optimized = <<>> /\ closed = FALSE /\ reads = <<>>
    /\ BatchIdle /\ ValIdle /\ LoadIdle /\ PipeIdle /\ ZoneIdle

\* one call of optimize_routes; the input buffers stand at their start, as
\* load_csv makes them
Init ==
    /\ csv_data_list \in InputLists
    /\ batch_size \in 1..MaxBatchSize
    /\ cpu_count \in CpuCounts
    /\ buf_pos = [i \in DOMAIN csv_data_list |-> 0]
    /\ FirstAttempt

Spec == Init /\ [][Next]_vars

\* batch sizes the command line can pass on: run_pipeline hands its
\* batch_size option to optimize_routes as it is
AnyBatchSizes == {-1, 0} \cup (1..MaxBatchSize)

\* optimize_routes called with any batch size
SizeInit ==
    /\ csv_data_list \in InputLists
    /\ batch_size \in AnyBatchSizes
    /\ cpu_count \in CpuCounts
    /\ buf_pos = [i \in DOMAIN csv_data_list |-> 0]
    /\ FirstAttempt

SizeSpec == SizeInit /\ [][Next]_vars

\* one payload of n deliveries with the ids 1..n
OnePayload(n) == <<MkCsv("ok", [i \in 1..n |-> MainRow(i)])>>

\* optimize_routes called on 1..MaxTasks deliveries with batch_size = 1: as
\* many batches as deliveries go to the pool
PoolInit ==
    /\ csv_data_list \in {OnePayload(n) : n \in 1..MaxTasks}
    /\ batch_size = 1
    /\ cpu_count \in CpuCounts
    /\ buf_pos = [i \in DOMAIN csv_data_list |-> 0]
    /\ FirstAttempt

PoolSpec == PoolInit /\ [][Next]_vars

\* optimize_routes called on buffers the caller may have read before: each
\* one stands at its start or at its end
BufInit ==
    /\ csv_data_list \in InputLists
    /\ batch_size = MaxBatchSize
    /\ cpu_count = 1
    /\ buf_pos \in [DOMAIN csv_data_list -> {0, 1}]
    /\ FirstAttempt

BufSpec == BufInit /\ [][Next]_vars

\* load_csv called on a bucket that may be missing and holds at most
\* MaxObjects objects
LoadInit ==
    /\ l_bucket \in BOOLEAN
    /\ l_store \in SeqsUpTo(Objects, MaxObjects)
    /\ l_pc = "start" /\ l_listed = <<>> /\ csv_objects = <<>>
    /\ l_i = 0 /\ l_try = 0 /\ l_fails = <<>> /\ csv_data = <<>> /\ l_exc = NoExc
    /\ RouteIdle /\ BatchIdle /\ ValIdle /\ PipeIdle /\ ZoneIdle

LoadSpec == LoadInit /\ [][LoadNext]_vars

\* run_pipeline called with any options
PipeInit ==
    /\ p_opts \in [batch_size : AnyBatchSizes, verbose : BOOLEAN,
                    level_ok : BOOLEAN, writable : BOOLEAN, use_sample : BOOLEAN]
    /\ p_pc = "start" /\ p_calls = <<>> /\ p_returned = <<>> /\ p_failed = [step |-> "none", exc |-> "none"]
    /\ p_exc = "none" /\ exit_code = -1
    /\ RouteIdle /\ BatchIdle /\ ValIdle /\ LoadIdle /\ ZoneIdle

PipeSpec ==
    /\ PipeInit
    /\ [][PipeSetup \/ PipeIngest \/ PipeOptimize \/ PipeStore \/ PipeHandler
           \/ PipeComplete]_vars

\* a point of whole degrees, in and just outside the valid ranges
ZoneInit ==
    /\ z_lon \in -181..181 /\ z_lat \in {-91, -90, -1, 0, 45, 90}
    /\ z_pc = "start" /\ z_crs = 0
    /\ RouteIdle /\ BatchIdle /\ ValIdle /\ LoadIdle /\ PipeIdle

ZoneSpec == ZoneInit /\ [][ZoneValidate \/ ZoneProject]_vars

----------------------------------------------------------------------------
(* Properties *)

\* the rows of the call's payloads in list order
InputRows == Flatten([i \in DOMAIN csv_data_list |-> csv_data_list[i].rows])

IdsOf(rows) == {rows[i].delivery_id : i \in DOMAIN rows}
RouteIds(rt) == {rt[i].row.delivery_id : i \in DOMAIN rt}
Occurrences(rt, id) == Cardinality({i \in DOMAIN rt : rt[i].row.delivery_id = id})
DistinctIds(rows) == \A i, j \in DOMAIN rows : i # j => rows[i].delivery_id # rows[j].delivery_id

\* C1: optimize_batch on a non-empty batch returns as many routes as the
\* batch has distinct delivery_id values
C1_RouteCount ==
    (b_pc = "done" /\ batch_df # <<>>)
        => Len(route) = Cardinality(IdsOf(batch_df))

\* a three-row batch in which a delivery_id repeats has been optimized
C1_Witness ==
    /\ b_pc = "done" /\ Len(batch_df) = 3
    /\ Cardinality(IdsOf(batch_df)) = 2 /\ Len(route) = 2

\* C2: with all delivery ids of the input distinct, the returned route set
\* holds every input delivery_id exactly once and nothing else
C2_EveryIdOnce ==
    (pc = "returned" /\ DistinctIds(InputRows))
        => /\ RouteIds(optimized) = IdsOf(InputRows)
           /\ \A id \in IdsOf(InputRows) : Occurrences(optimized, id) = 1
           /\ Len(optimized) = Len(InputRows)

\* three deliveries from two payloads went through two batches
C2_Witness ==
    /\ pc = "returned" /\ DistinctIds(InputRows)
    /\ Len(csv_data_list) = 2 /\ batches = 2 /\ Len(optimized) = 3

\* the least k with k * size >= total
Ceil(total, size) == CHOOSE k \in 0..total : k * size >= total /\ (k - 1) * size < total

\* n batches of the given size at offsets 0, size, 2*size, ... tile [0, total)
PartitionOK(total, size, n) ==
    /\ n = Ceil(total, size)
    /\ \A r \in 0..(total - 1) :
          Cardinality({k \in 0..(n - 1) :
              Offset(k, size) <= r /\ r < Min2(Offset(k, size) + size, total)}) = 1
    /\ \A k \in 0..(n - 1) : Offset(k, size) = k * size /\ Offset(k, size) < total

\* C3: the partitioning step yields ceil(total_rows / batch_size) batches at
\* offsets 0, batch_size, ... whose row ranges tile [0, total_rows); for the
\* row count of the call and, by the same computation, for every smaller row
\* count from 0 up
C3_Partition ==
    /\ pc \in {"slice", "map", "concat", "returned"}
          => PartitionOK(total_rows, batch_size, batches)
    /\ pc = "slice" /\ idx = 0
          => \A t \in 0..total_rows : PartitionOK(t, batch_size, BatchCount(t, batch_size))

\* three rows were partitioned into a full batch and a short one
C3_Witness ==
    pc = "slice" /\ total_rows = 3 /\ batch_size = 2 /\ batches = 2

\* C4: the fetched batches, one after the other, are the rows of the combined
\* input in source order, each row once
C4_BatchesCoverInput ==
    (pc \in {"map", "concat", "returned"}) => Flatten(batch_dfs) = InputRows

\* rows of two payloads were fetched as two batches, the second one short
C4_Witness ==
    /\ pc = "map" /\ Len(csv_data_list) = 2 /\ Len(batch_dfs) = 2
    /\ Len(batch_dfs[1]) = 2 /\ Len(batch_dfs[2]) = 1

\* C5: the returned route set is the routes of batch 1, then those of batch 2,
\* ..., whatever the order in which the workers finished
C5_InputOrder ==
    pc = "returned"
        => optimized = Flatten([b \in DOMAIN batch_dfs |->
                                   optimize_batch(batch_dfs[b]).route])

\* the call returned although a later batch finished before the first one
C5_Witness ==
    /\ pc = "returned" /\ unordered /\ Len(batch_dfs) >= 2
    /\ DistinctIds(InputRows)

SomeChunkFailed == \E c \in DOMAIN chunk_state : chunk_state[c] = "failed"

\* C6: an attempt in which a batch failed returns nothing, and a returned
\* route set holds the result of every batch
C6_NoPartialResult ==
    /\ SomeChunkFailed
          => pc \in {"map", "failed", "sleep", "raised"} /\ optimized = <<>>
    /\ pc = "returned"
          => /\ \A c \in DOMAIN chunk_state : chunk_state[c] = "done"
             /\ \A b \in DOMAIN results : results[b].set
             /\ Len(results) = batches

\* an attempt has failed with one batch done and another one failed
C6_Witness ==
    /\ pc = "failed" /\ exc = "engine_error"
    /\ \E c, d \in DOMAIN chunk_state :
          chunk_state[c] = "done" /\ chunk_state[d] = "failed"

ValidationErrors == {"empty", "schema_mismatch", "duplicate", "not_numeric", "null",
                     "out_of_range", "not_integer", "not_datetime"}

NothingStarted ==
    /\ tables = <<>> /\ deliveries = <<>> /\ batch_dfs = <<>>
    /\ chunk_state = <<>> /\ results = <<>>

\* C7: while payloads are validated nothing is loaded, a table exists only
\* when every payload has passed validation, and an attempt that failed in
\* validation has created no table, sliced no batch and dispatched nothing
C7_ValidateFirst ==
    /\ pc = "validate" => NothingStarted
    /\ tables # <<>> =>
          \A i \in DOMAIN csv_data_list : validate_csv_schema(csv_data_list[i]) = "ok"
    /\ (pc \in {"failed", "sleep", "raised"} /\ exc \in ValidationErrors)
          => NothingStarted

\* the second payload failed validation after the first one had passed
C7_Witness ==
    /\ pc = "failed" /\ exc = "schema_mismatch" /\ Len(csv_data_list) = 2
    /\ validate_csv_schema(csv_data_list[1]) = "ok" /\ NothingStarted

\* C8 (as claimed): a call whose combined input repeats a delivery_id fails
\* validation, so it never returns a route set
C8_DuplicateRejected ==
    ~DistinctIds(InputRows) => pc # "returned"

\* the claim's conditions on a payload; a timestamp is parseable when the
\* cell holds a date-time
C9_Conditions(csv) ==
    /\ csv.header = "ok" /\ csv.rows # <<>>
    /\ ~Duplicated(Column(csv.rows, "delivery_id"))
    /\ \A i \in DOMAIN csv.rows :
          /\ \A c \in {"pickup_lat", "dropoff_lat"} :
                csv.rows[i][c].k \in {"num", "frac"} /\ CellBetween(csv.rows[i][c], -90, 90)
          /\ \A c \in {"pickup_lon", "dropoff_lon"} :
                csv.rows[i][c].k \in {"num", "frac"} /\ CellBetween(csv.rows[i][c], -180, 180)
          /\ csv.rows[i].delivery_id.k = "num"
          /\ csv.rows[i].timestamp.k = "time"

\* C9 (as claimed): validate_csv_schema accepts exactly the payloads that
\* meet the conditions
C9_AcceptsIff ==
    v_pc = "done" => (v_result = "ok" <=> C9_Conditions(v_csv))

\* what the code does: as C9_AcceptsIff with an empty timestamp cell admitted
C9_AcceptsIffTimestampMayBeEmpty ==
    v_pc = "done" =>
        (v_result = "ok" <=>
            \E csv \in {[v_csv EXCEPT !.rows =
                            [i \in DOMAIN v_csv.rows |->
                                IF v_csv.rows[i].timestamp.k = "null"
                                THEN [v_csv.rows[i] EXCEPT !.timestamp = Time(0)]
                                ELSE v_csv.rows[i]]]} : C9_Conditions(csv))

\* C10: at most 3 attempts; a failed attempt before the third is followed by
\* a sleep and another attempt; after the third failure the exception of
\* that attempt is raised
C10_Inv ==
    /\ attempt \in 1..MaxAttempts
    /\ Len(errors) = (IF pc \in {"sleep", "raised"} THEN attempt ELSE attempt - 1)
    /\ pc = "raised" => attempt = MaxAttempts /\ errors[attempt] = exc /\ exc # "none"
    /\ pc = "sleep" => attempt < MaxAttempts
    /\ pc = "failed" => exc # "none"

C10_Retry ==
    /\ []C10_Inv
    /\ [][/\ (pc = "failed" /\ attempt < MaxAttempts) => pc' = "sleep"
          /\ (pc = "failed" /\ attempt = MaxAttempts) => pc' = "raised"
          /\ pc = "sleep" => (pc' = "start" /\ attempt' = attempt + 1)]_vars

\* the third attempt has failed and its exception is raised
C10_Witness ==
    pc = "raised" /\ Len(errors) = 3 /\ errors[1] = "engine_error"

\* C11 (as claimed): the sleep after the first failed attempt is 4 and the
\* sleep after the second failed attempt is 8
C11_WaitsGrow ==
    /\ Len(waits) >= 1 => waits[1] = 4
    /\ Len(waits) >= 2 => waits[2] = 8

\* what the code does: both sleeps of a call are 4, the minimum wait;
\* 2^(n-1) passes the minimum only after the third failed attempt
C11_WaitsAreMinimum ==
    \A i \in DOMAIN waits : waits[i] = WaitMin

\* Settings.batch_size_positive: the field validator of batch_size
batch_size_positive(v) == IF v <= 0 THEN "ValueError" ELSE "ok"

\* C12 (as claimed): with a batch_size that is not positive, Settings raises
\* its ValueError and an attempt of optimize_routes on valid payloads fails
\* with the configuration error (the ValueError of the argument check) before
\* anything is loaded or computed; the call never returns
C12_ConfigError ==
    batch_size <= 0 =>
        /\ batch_size_positive(batch_size) = "ValueError"
        /\ pc # "returned"
        /\ (pc = "failed" /\ exc \notin ValidationErrors)
              => exc = "ValueError" /\ NothingStarted

\* a call whose payloads all have the header and not a single row
NoRowsToProcess ==
    /\ csv_data_list # <<>>
    /\ \A i \in DOMAIN csv_data_list : csv_data_list[i] = MkCsv("ok", <<>>)

\* C13 (as claimed): optimize_batch on a batch of 0 rows returns an empty
\* route list, and a call of optimize_routes that has 0 rows to process
\* raises nothing and ends with an empty route list
C13_EmptyYieldsEmpty ==
    /\ optimize_batch(<<>>) = [raised |-> "none", route |-> <<>>]
    /\ NoRowsToProcess =>
          /\ pc \notin {"failed", "sleep", "raised"}
          /\ pc = "returned" => optimized = <<>>

\* the part of C13 about optimize_batch: the empty batch is returned as an
\* empty route at once, nothing is raised
C13_EmptyBatch ==
    (batch_df = <<>> /\ b_pc # "start") => (b_pc = "done" /\ route = <<>>)

\* optimize_routes never returns an empty route set
C13_NeverReturnsEmpty ==
    pc = "returned" => optimized # <<>>

\* the batches of chunk c a worker has taken up: those it optimized and, in a
\* failed chunk, the one that raised
BatchesRun(c) == chunk_pos[c] + (IF chunk_state[c] = "failed" THEN 1 ELSE 0)

ChunkLen(c) == ChunkLast(c) - ChunkFirst(c) + 1

\* C15 (as claimed): when pool.map reports a failure every chunk has arrived
\* and every dispatched batch has been run by a worker
C15_EveryBatchRuns ==
    (pc = "failed" /\ exc = "engine_error")
        => /\ AllArrived
           /\ \A c \in DOMAIN chunk_state : BatchesRun(c) = ChunkLen(c)

C15_Inv ==
    (pc = "failed" /\ exc = "engine_error")
        => /\ AllArrived
           /\ \A c \in DOMAIN chunk_state :
                 /\ chunk_state[c] = "done" => chunk_pos[c] = ChunkLen(c)
                 /\ chunk_state[c] = "failed" => chunk_pos[c] < ChunkLen(c)

\* C15 (amended): no chunk is cancelled. A queued chunk stays queued until a
\* worker takes it, a running chunk runs until it is done or one of its own
\* batches raises, whatever happened to the other chunks; the failure reaches
\* the caller only when every chunk has arrived, each one done in full or
\* stopped at its own failing batch
C15_NoChunkCancelled ==
    /\ []C15_Inv
    /\ [][pc = "map" =>
            /\ pc' # "map" => AllArrived
            /\ \A c \in DOMAIN chunk_state :
                  /\ chunk_state[c] = "queued" => chunk_state'[c] \in {"queued", "running"}
                  /\ chunk_state[c] = "running"
                        => chunk_state'[c] \in {"running", "done", "failed"}
                  /\ chunk_state[c] \in {"done", "failed"}
                        => chunk_state'[c] = chunk_state[c]
                  /\ chunk_pos'[c] >= chunk_pos[c]]_vars

\* a failure is reported: one chunk stopped at a failing batch with a batch
\* of its own never run, and another chunk ran to its end after that failure
\* (its results were no longer stored)
C15_Witness ==
    /\ pc = "failed" /\ exc = "engine_error"
    /\ \E c, d \in DOMAIN chunk_state :
          /\ chunk_state[c] = "failed" /\ BatchesRun(c) < ChunkLen(c)
          /\ chunk_state[d] = "done" /\ ~results[ChunkFirst(d)].set

Queued == {c \in DOMAIN chunk_state : chunk_state[c] = "queued"}

\* C16: at most max(1, cpu_count - 1) batches are being optimized at the same
\* time, and there is a worker also on a machine with one CPU: while a batch
\* is queued and no worker is busy, a worker can take it
C16_PoolBound ==
    /\ Cardinality(Running) <= (IF cpu_count - 1 >= 1 THEN cpu_count - 1 ELSE 1)
    /\ (pc = "map" /\ Queued # {} /\ Running = {}) => ENABLED StartChunk

\* on a machine with 3 CPUs both workers are busy and a batch waits
C16_Witness ==
    pc = "map" /\ cpu_count = 3 /\ Cardinality(Running) = 2 /\ Queued # {}

\* on a machine with 1 CPU the one worker is busy and a batch waits
C16_WitnessOneCpu ==
    pc = "map" /\ cpu_count = 1 /\ Cardinality(Running) = 1 /\ Queued # {}

\* C17 (as claimed): optimize_batch on a non-empty batch that lacks one of
\* the four coordinate columns returns nothing and raises the
\* OptimizationError 'Batch data error'
C17_BatchDataError ==
    (batch_df # <<>> /\ missing_cols(batch_df) # {})
        => /\ b_pc \in {"start", "raised"}
           /\ b_pc = "raised" => b_exc = "batch_data_error"

\* what the code does: the batch-data error for a missing pickup column, the
\* ValueError of build_delivery_graph for a missing dropoff column
C17_ByColumn ==
    (b_pc = "raised" /\ missing_cols(batch_df) # {})
        => b_exc = (IF missing_cols(batch_df) \cap {"pickup_lat", "pickup_lon"} # {}
                    THEN "batch_data_error" ELSE "ValueError")

\* a payload that is non-empty and has every required column
ValidPayload(csv) == csv.header = "ok" /\ csv.rows # <<>>

\* the payloads of the listed objects that decode and are valid, in listing
\* order: what load_csv returns when no fetch fails
ValidListed ==
    LET good == SelectSeq(csv_objects, LAMBDA o : o.utf8 /\ ValidPayload(o.csv))
    IN  [i \in DOMAIN good |-> good[i].csv]

FetchFailed == \E i \in DOMAIN l_fails : l_fails[i] >= 3

C18_Inv ==
    /\ l_pc \in {"fetch", "read"} => l_try \in 1..3
    /\ \A i \in DOMAIN l_fails : l_fails[i] <= 3
    /\ FetchFailed => l_pc = "raised" /\ l_exc.type = "IngestError"
    /\ (l_pc = "raised" /\ "get_object failed" \in Range(l_exc.msg))
          => l_fails[Len(l_fails)] = 3
    /\ l_pc = "returned" => csv_data = ValidListed

\* C18: an object is fetched in at most 3 attempts; a failed first or second
\* attempt is followed by another attempt and not by an exception, and what
\* load_csv returns does not depend on the attempts that failed; when the
\* third attempt fails load_csv raises IngestError
C18_FetchRetry ==
    /\ []C18_Inv
    /\ [][(l_pc = "fetch" /\ l_i <= Len(csv_objects) /\ l_try < 3)
             => /\ l_pc' \in {"fetch", "read"}
                /\ l_pc' = "fetch" => (l_try' = l_try + 1 /\ l_i' = l_i)]_vars

\* load_csv returned a payload it fetched at the third attempt
C18_Witness ==
    /\ l_pc = "returned"
    /\ \E i \in DOMAIN l_fails :
          l_fails[i] = 2 /\ csv_objects[i].utf8 /\ ValidPayload(csv_objects[i].csv)

\* the third attempt failed and load_csv raised
C18_WitnessRaised ==
    l_pc = "raised" /\ FetchFailed /\ l_exc.type = "IngestError"

\* C19: load_csv returns the valid payloads of the listing and only those;
\* an object that is empty, not UTF-8, without rows or without a required
\* column is skipped and the load goes on; with no valid payload at all
\* load_csv raises IngestError 'No valid CSV content found'
C19_OnlyValid ==
    /\ l_pc = "returned"
          => /\ csv_data # <<>>
             /\ \A i \in DOMAIN csv_data : ValidPayload(csv_data[i])
             /\ csv_data = ValidListed
    /\ (l_pc = "raised" /\ csv_objects # <<>> /\ ~FetchFailed)
          => /\ ValidListed = <<>>
             /\ l_exc.type = "IngestError"
             /\ "No valid CSV content found" \in Range(l_exc.msg)
    /\ (l_pc \in {"fetch", "read"}) => l_exc = NoExc

\* of two listed objects one was skipped and the other one returned
C19_Witness ==
    /\ l_pc = "returned" /\ Len(csv_objects) = 2 /\ Len(csv_data) = 1
    /\ ~ValidPayload(csv_objects[1].csv)

\* every listed object was skipped and load_csv raised
C19_WitnessNoneValid ==
    /\ l_pc = "raised" /\ Len(csv_objects) = 2 /\ ~FetchFailed
    /\ ~csv_objects[1].utf8 /\ csv_objects[2].csv.header = "bad"

SampleHasCsv == \E i \in DOMAIN l_store : l_store[i].is_csv /\ l_store[i].in_sample
StoreHasCsv == \E i \in DOMAIN l_store : l_store[i].is_csv

\* C20: the sample prefix is listed first and the full prefix only when the
\* sample listing holds no CSV object; with both listings empty load_csv
\* raises IngestError 'No CSV files found'; without the bucket it raises
\* IngestError and lists nothing
C20_Listing ==
    /\ l_listed \in {<<>>, <<"sample">>, <<"sample", "full">>}
    /\ "full" \in Range(l_listed) => ~SampleHasCsv
    /\ (l_pc \in {"fetch", "read", "returned"} /\ ~SampleHasCsv)
          => l_listed = <<"sample", "full">>
    /\ (l_bucket /\ ~StoreHasCsv /\ l_pc \in {"raised", "returned", "fetch", "read"})
          => /\ l_pc = "raised" /\ l_listed = <<"sample", "full">>
             /\ l_exc.type = "IngestError"
             /\ "No CSV files found" \in Range(l_exc.msg)
    /\ (~l_bucket /\ l_pc # "start")
          => /\ l_pc = "raised" /\ l_exc.type = "IngestError"
             /\ l_listed = <<>> /\ csv_objects = <<>>

\* the sample listing was empty and the payload of the full listing returned
C20_Witness ==
    l_pc = "returned" /\ l_listed = <<"sample", "full">> /\ StoreHasCsv

\* both listings were empty
C20_WitnessNoFiles ==
    l_pc = "raised" /\ l_bucket /\ l_listed = <<"sample", "full">> /\ l_store # <<>>

\* the bucket does not exist
C20_WitnessNoBucket ==
    l_pc = "raised" /\ ~l_bucket /\ StoreHasCsv

\* the order of the node identifiers "d_<i>" and "p_<i>": by role, then by
\* row index
NodeIdLeq(u, v) == IF u.t = v.t THEN u.i <= v.i ELSE u.t = "d"

\* the out-edges of the current node that lead to an unvisited node
UnvisitedOut == {k \in DOMAIN G.adj[current_node] : G.adj[current_node][k].n \notin visited}

AtWalkStep == b_pc = "walk" /\ Cardinality(visited) < Len(G.nodes)

\* C21: a step of the walk from a node with an unvisited out-neighbour goes
\* to an unvisited out-neighbour of least edge weight, and among those of
\* least weight to the one with the smallest node identifier
C21_GreedyStep ==
    [][(AtWalkStep /\ UnvisitedOut # {}) =>
          LET out == G.adj[current_node]
          IN  \E k \in UnvisitedOut :
                 /\ current_node' = out[k].n
                 /\ path' = Append(path, out[k].n)
                 /\ visited' = visited \cup {out[k].n}
                 /\ \A j \in UnvisitedOut :
                       /\ out[k].weight <= out[j].weight
                       /\ out[j].weight = out[k].weight => NodeIdLeq(out[k].n, out[j].n)]_vars

\* the walk went from the first pickup to its own dropoff although the
\* dropoff of the second delivery lies at the same distance, 0
C21_Witness ==
    /\ b_pc = "walk" /\ Len(path) = 2
    /\ path[1] = PNode(0) /\ path[2] = DNode(0)
    /\ \E k \in DOMAIN G.adj[PNode(0)] :
          G.adj[PNode(0)][k].n = DNode(1) /\ G.adj[PNode(0)][k].weight = 0

\* the nodes of G are in creation order p_0, d_0, p_1, d_1, ...
CreationOrder ==
    \A k \in DOMAIN G.nodes :
        G.nodes[k] = (IF k % 2 = 1 THEN PNode((k - 1) \div 2) ELSE DNode((k - 2) \div 2))

\* C22: a step of the walk from a node without an unvisited out-neighbour
\* jumps to the unvisited node created earliest, and the walk goes on from it
C22_DeadEndJump ==
    /\ [](b_pc \in {"walk", "walked", "done"} => CreationOrder)
    /\ [][(AtWalkStep /\ UnvisitedOut = {}) =>
             \E k \in DOMAIN G.nodes :
                /\ G.nodes[k] \notin visited
                /\ \A j \in 1..(k - 1) : G.nodes[j] \in visited
                /\ current_node' = G.nodes[k]
                /\ path' = Append(path, G.nodes[k])
                /\ visited' = visited \cup {G.nodes[k]}
                /\ b_pc' = "walk"]_vars

\* at the dropoff of the first delivery the walk jumped to the pickup of the
\* second one, with the dropoff of the second and a third delivery unvisited
C22_Witness ==
    /\ b_pc = "walk" /\ Len(batch_df) = 3
    /\ path = <<PNode(0), DNode(0), PNode(1)>>

\* a sequence without a repeated entry
NoRepeat(s) == \A i, j \in DOMAIN s : i # j => s[i] # s[j]

WellFormedBatch == batch_df # <<>> /\ missing_cols(batch_df) = {}

C23_Inv ==
    /\ b_pc \in {"walk", "walked", "done"} =>
          /\ Len(G.nodes) = 2 * Len(batch_df)
          /\ NoRepeat(path) /\ Range(path) = visited
          /\ visited \subseteq Range(G.nodes)
    /\ (b_pc = "done" /\ batch_df # <<>>) =>
          /\ Len(path) = 2 * Len(batch_df)
          /\ Range(path) = Range(G.nodes)
    /\ WellFormedBatch => b_pc \notin {"raised", "walked"}

\* C23: on a non-empty batch of n deliveries the walk ends: once started it
\* reaches its end, every iteration of the loop puts one more node on the
\* path and the path never holds more than the 2n nodes of the graph; when
\* the walk has ended the path holds each of the 2n nodes exactly once
C23_WalkTerminates ==
    /\ []C23_Inv
    /\ (b_pc = "walk" ~> b_pc = "done")
    /\ [][b_pc = "walk" =>
             \/ b_pc' = "done" /\ path' = path /\ Len(path) = Len(G.nodes)
             \/ /\ b_pc' = "walk" /\ Len(path') = Len(path) + 1
                /\ Len(path') <= Len(G.nodes)]_vars

\* the walk over a batch of 3 deliveries has ended with 6 nodes on the path
C23_Witness ==
    b_pc = "done" /\ Len(batch_df) = 3 /\ Len(path) = 6 /\ Cardinality(visited) = 6

\* the edges of G as triples <<from, to, weight>>
EdgesOf(g) ==
    UNION {{<<u, g.adj[u][k].n, g.adj[u][k].weight>> : k \in DOMAIN g.adj[u]} :
             u \in DOMAIN g.adj}

\* the number of out-edges stored at the nodes of G
EdgeCount(g, us) == Cardinality({<<u, k>> \in us \X (1..Len(g.nodes)) : k \in DOMAIN g.adj[u]})

GraphBuilt == b_pc \in {"walk", "walked", "done"} /\ batch_df # <<>>

\* C24: the graph of a batch of n deliveries has 2n nodes, a pickup and a
\* dropoff per delivery; its edges are one edge of weight 0 from each pickup
\* to its own dropoff and one edge from each pickup to each dropoff of another
\* delivery, and nothing else: no edge leaves a dropoff, none joins two
\* pickups, and no weight is negative
C24_GraphShape ==
    GraphBuilt =>
        LET n == Len(batch_df)
            rows == 0..(n - 1)
        IN  /\ Len(G.nodes) = 2 * n
            /\ Range(G.nodes) = {PNode(i) : i \in rows} \cup {DNode(i) : i \in rows}
            /\ DOMAIN G.adj = Range(G.nodes)
            /\ {<<e[1], e[2]>> : e \in EdgesOf(G)} =
                  {<<PNode(i), DNode(j)>> : i \in rows, j \in rows}
            /\ EdgeCount(G, Range(G.nodes)) = n * n
            /\ \A i \in rows : <<PNode(i), DNode(i), 0>> \in EdgesOf(G)
            /\ \A i \in rows : G.adj[DNode(i)] = <<>>
            /\ \A e \in EdgesOf(G) : e[1].t = "p" /\ e[2].t = "d" /\ e[3] >= 0

\* the graph of three deliveries is built, with an edge of positive weight
\* to a dropoff of another delivery
C24_Witness ==
    /\ GraphBuilt /\ Len(batch_df) = 3
    /\ \E e \in EdgesOf(G) : e[1] = PNode(0) /\ e[2] = DNode(2) /\ e[3] > 0

NothingDispatched == chunk_state = <<>> /\ chunk_pos = <<>> /\ results = <<>>

C25_Inv ==
    /\ pc \in {"start", "validate", "load", "combine", "partition", "slice"}
          => NothingDispatched /\ optimized = <<>>
    /\ pc \in {"map", "concat", "returned"}
          => /\ Len(batch_dfs) = batches
             /\ Len(results) = batches
    /\ pc = "map" => optimized = <<>>
    /\ pc \in {"concat", "returned"}
          => /\ Running = {} /\ Queued = {}
             /\ \A c \in DOMAIN chunk_state : chunk_state[c] = "done"
             /\ \A b \in DOMAIN results : results[b].set

\* C25: the phases of an attempt follow one another: a batch is sliced only
\* while nothing is dispatched, the pool works only on the complete list of
\* batches, and the results are concatenated only when every batch has been
\* gathered and no worker is running
C25_Sequential ==
    /\ []C25_Inv
    /\ [][/\ (batch_dfs' # batch_dfs /\ batch_dfs' # <<>>)
                => (pc = "slice" /\ NothingDispatched /\ chunk_state' = <<>>)
          /\ chunk_state' # chunk_state
                => (batch_dfs' = batch_dfs \/ pc = "sleep")
          /\ optimized' # optimized
                => (pc = "concat" /\ AllArrived /\ Running = {})]_vars

\* three batches were sliced, optimized by two workers out of order and
\* gathered; the concatenation is about to start
C25_Witness ==
    pc = "concat" /\ batches = 3 /\ cpu_count = 3 /\ unordered

IsPrefix(s, t) == Len(s) <= Len(t) /\ \A i \in DOMAIN s : s[i] = t[i]

\* the step functions a complete run calls, in order
StepsOf(opts) ==
    IF opts.use_sample THEN <<"optimize_routes", "store_routes">>
    ELSE <<"load_csv", "optimize_routes", "store_routes">>

C26_Inv ==
    /\ IsPrefix(p_calls, StepsOf(p_opts))
    /\ IsPrefix(p_returned, p_calls)
    /\ "store_routes" \in Range(p_calls) => "optimize_routes" \in Range(p_returned)
    /\ "optimize_routes" \in Range(p_calls)
          => (p_opts.use_sample \/ "load_csv" \in Range(p_returned))
    /\ p_failed.step # "none"
          => /\ p_pc \in {"handler", "exited"}
             /\ p_calls # <<>> /\ p_calls[Len(p_calls)] = p_failed.step
             /\ p_returned = SubSeq(p_calls, 1, Len(p_calls) - 1)
    /\ (~p_opts.level_ok \/ ~p_opts.writable) => p_calls = <<>>
    /\ p_pc = "exited"
          => /\ exit_code \in {0, 1}
             /\ exit_code = 0 <=> p_returned = StepsOf(p_opts)
             /\ exit_code = 1 <=> (p_failed.step # "none" \/ ~p_opts.level_ok \/ ~p_opts.writable)
    /\ p_pc # "exited" => exit_code = -1

\* C26: run_pipeline calls its steps in the order ingest, optimize, store, a
\* step only when the one before it has returned; a step that fails is the
\* last step of the run, and the run ends with exit code 1
C26_StepOrder ==
    /\ []C26_Inv
    /\ [][(p_failed.step # "none" \/ p_exc # "none")
             => (p_calls' = p_calls /\ p_failed' = p_failed /\ exit_code' \in {-1, 1})]_vars

\* the ingestion returned, optimize_routes raised, and the run ended with
\* exit code 1 without a call of store_routes
C26_Witness ==
    /\ p_pc = "exited" /\ exit_code = 1
    /\ p_calls = <<"load_csv", "optimize_routes">> /\ p_returned = <<"load_csv">>
    /\ p_failed = [step |-> "optimize_routes", exc |-> "ValueError"]

\* C27: on a non-empty batch with distinct delivery ids the walk visits
\* p_0, d_0, p_1, d_1, ... and the route returned is the rows of the batch in
\* their input order, whatever the distances are
C27_InputOrder ==
    (b_pc = "done" /\ WellFormedBatch /\ DistinctIds(batch_df)) =>
        /\ Len(path) = 2 * Len(batch_df)
        /\ \A k \in DOMAIN path :
              path[k] = (IF k % 2 = 1 THEN PNode((k - 1) \div 2) ELSE DNode((k - 2) \div 2))
        /\ Len(route) = Len(batch_df)
        /\ \A i \in DOMAIN route : route[i].row = batch_df[i]

\* a batch of two deliveries was returned in input order although the first
\* pickup lies at the dropoff of the second delivery and away from its own
\* dropoff
C27_Witness ==
    /\ b_pc = "done" /\ Len(batch_df) = 2 /\ DistinctIds(batch_df)
    /\ Len(route) = 2
    /\ PickupPoint(batch_df[1]) = DropoffPoint(batch_df[2])
    /\ PickupPoint(batch_df[1]) # DropoffPoint(batch_df[1])

\* C28 (as claimed): for every point that passed validation get_utm_crs
\* computes a zone number in 1..60
C28_ZoneInRange ==
    z_pc = "done" => (z_crs % 100) \in 1..60

\* what the code does: the zone is floor((lon + 180) / 6) + 1, which is in
\* 1..60 for every valid longitude but 180, where it is 61; the hemisphere
\* follows the sign of the latitude
C28_ZoneOfLongitude ==
    z_pc = "done" =>
        /\ z_lon \in -180..180 /\ z_lat \in -90..90
        /\ \E zone \in 1..61 :
              /\ z_crs = (IF z_lat >= 0 THEN 32600 ELSE 32700) + zone
              /\ 6 * (zone - 1) <= z_lon + 180 /\ z_lon + 180 < 6 * zone
              /\ zone = 61 <=> z_lon = 180

\* C29: with rows to process and a positive batch size, every batch handed
\* to the pool holds at least 1 and at most batch_size rows, and every batch
\* but the last one holds batch_size rows
C29_NoEmptyBatch ==
    (pc \in {"map", "concat", "returned"} /\ total_rows > 0 /\ batch_size > 0) =>
        /\ batch_dfs # <<>>
        /\ \A b \in DOMAIN batch_dfs :
              /\ Len(batch_dfs[b]) >= 1
              /\ Len(batch_dfs[b]) <= batch_size
              /\ b < Len(batch_dfs) => Len(batch_dfs[b]) = batch_size
        /\ \A b \in DOMAIN batch_dfs : optimize_batch(batch_dfs[b]).route # <<>>

\* three rows in batches of two: a full batch and a last batch of one row
\* are with the pool
C29_Witness ==
    /\ pc = "map" /\ total_rows = 3 /\ batch_size = 2
    /\ Len(batch_dfs) = 2 /\ Len(batch_dfs[2]) = 1 /\ Running # {}

\* two rows in batches of two: the row count is a multiple of the batch size
\* and there is one full batch
C29_WitnessMultiple ==
    pc = "map" /\ total_rows = 2 /\ batch_size = 2 /\ Len(batch_dfs) = 1

\* the payload of the k-th read of an attempt: the validation loop reads the
\* buffers in list order, then the loading loop does
PayloadOfRead(k) == csv_data_list[((k - 1) % Len(csv_data_list)) + 1]

C30_Inv ==
    /\ closed <=> pc = "returned"
    /\ pc \in {"failed", "sleep", "raised"} => ~closed
    /\ Len(buf_pos) = Len(csv_data_list)
    /\ \A k \in DOMAIN reads : reads[k] = PayloadOfRead(k)
    /\ \A i \in DOMAIN tables : tables[i] = csv_data_list[i].rows
    /\ \A i, j \in DOMAIN errors :
          (errors[i] \in ValidationErrors \/ errors[j] \in ValidationErrors)
              => errors[i] = errors[j]

\* C30: the input buffers are closed when the call returns and at no other
\* time; after a failed attempt they are open, and every attempt, the first
\* one and every retry, rewinds a buffer before it reads it and so reads the
\* whole payload
C30_BuffersRewound ==
    /\ []C30_Inv
    /\ [][/\ (closed' /\ ~closed) => pc' = "returned"
          /\ closed => closed'
          /\ (pc = "sleep" /\ attempt' = attempt + 1)
                => (~closed' /\ buf_pos' = buf_pos /\ csv_data_list' = csv_data_list)]_vars

\* the second attempt has read every buffer in full and returned, and the
\* buffers are closed; the first attempt had left the buffers at their end
C30_Witness ==
    /\ pc = "returned" /\ closed /\ attempt = 2 /\ errors = <<"engine_error">>
    /\ Len(csv_data_list) = 2 /\ Len(reads) = 4

\* a buffer the caller left at its end is about to be validated in the first
\* attempt
C30_WitnessReadBefore ==
    /\ pc = "validate" /\ attempt = 1 /\ idx = 1 /\ buf_pos[1] = 1
    /\ csv_data_list[1].rows # <<>>
====
